---- MODULE Spec2Model ----
(***************************************************************************)
(* A model of lognow: the hierarchical context manager, the logger         *)
(* helpers of log.ts, the target classifier, the file transport cache,     *)
(* the singleton logger and the basic transports.                          *)
(***************************************************************************)
EXTENDS Integers, Sequences, FiniteSets, TLC

(***************************************************************************)
(* Values.  A JavaScript object used as a mapping is a function whose      *)
(* DOMAIN is its set of own keys; a key that is absent is not in DOMAIN.   *)
(***************************************************************************)
Undefined == "UNDEFINED"
Null == "NULL"
EmptyObject == [k \in {} |-> Undefined]

\* { ...a, ...b }: own keys of a, then own keys of b assigned over them
ObjectSpread(a, b) ==
  [k \in (DOMAIN a) \cup (DOMAIN b) |-> IF k \in DOMAIN b THEN b[k] ELSE a[k]]

\* const { k1, k2, ...rest } = object: the rest after removing the named keys
ObjectRest(object, keys) == [k \in (DOMAIN object) \ keys |-> object[k]]

\* the set of all mappings with keys in `keys` and values from vals[k]
Mappings(keys, vals) ==
  UNION { [ks -> UNION { vals[k] : k \in ks }] : ks \in SUBSET keys }

(***************************************************************************)
(* Bounds of the model.                                                    *)
(***************************************************************************)
MaxManagerCalls == 3
MaxChain == 3
MaxLoggers == 3
MaxMetaLoggers == 1

VARIABLES
  managers,     \* the context manager objects: id -> [context, hasContext]
  hist,         \* per manager: the setContext/appendContext calls made on it
  clones,       \* the <<original, clone>> pairs returned by clone()
  loggers,      \* the LogLayer objects: id -> [cm], cm the id of its manager
  parentOf,     \* per logger: the logger it was derived from, 0 for a root
  givenName,    \* per logger: the name argument it was created with
  env,          \* the platform: [name], what getName() returns
  shipped,      \* the record the last log call handed to the transports
  processDefined,       \* typeof process !== 'undefined'
  instance,             \* the argument of createLogBasicTypedTarget
  typed,                \* what createLogBasicTypedTarget returned or threw
  fileTransportsByPath, \* the Map of file transports: filename -> transport
  transports,           \* the JsonFileTransport objects constructed so far
  lastCreate,           \* the last createFileTransport call and its outcome
  currentOptions,       \* the options of the singleton logger
  singletonLog,         \* _log: the singleton logger, 0 for undefined
  created,              \* the loggers createLogger built for the singleton
  givenOptions,         \* the arguments of the setDefaultLogOptions calls
  lastAccess,           \* the logger the last access on `log` went to
  transport,            \* a basic transport: its kind, config and target
  lastShip,             \* what the last shipToLogger call did and returned
  lastLogger,           \* the last createLogger call and what it returned or threw
  ipc                   \* Electron: the listeners of the channel in main, the
                        \* messages on their way, and what the last one caused

mgrVars == <<managers, hist, clones>>
logVars == <<loggers, parentOf, givenName, env, shipped>>
targetVars == <<processDefined, instance, typed>>
fileVars == <<fileTransportsByPath, transports, lastCreate>>
singletonVars == <<currentOptions, singletonLog, created, givenOptions, lastAccess>>
shipVars == <<transport, lastShip, lastLogger, ipc>>

vars == <<managers, hist, clones,
          loggers, parentOf, givenName, env, shipped,
          processDefined, instance, typed,
          fileTransportsByPath, transports, lastCreate,
          currentOptions, singletonLog, created, givenOptions, lastAccess,
          transport, lastShip, lastLogger, ipc>>

\* the parts of the program a specification does not exercise stay as loaded
TargetIdle == processDefined = TRUE /\ instance = <<>> /\ typed = <<>>
FileIdle == fileTransportsByPath = <<>> /\ transports = <<>> /\ lastCreate = <<>>
SingletonIdle ==
  /\ currentOptions = <<>> /\ singletonLog = 0 /\ created = <<>>
  /\ givenOptions = <<>> /\ lastAccess = <<>>
\* no listener on the channel, nothing sent, window.logToMain not exposed
NoIpc ==
  [listeners |-> <<>>, channel |-> <<>>, sent |-> <<>>, relogged |-> <<>>,
   logToMain |-> FALSE, lastSend |-> <<>>]

ShipIdle == transport = <<>> /\ lastShip = <<>> /\ lastLogger = <<>> /\ ipc = NoIpc

(***************************************************************************)
(* HierarchicalContextManager (extends DefaultContextManager).             *)
(* A manager object has the fields context and hasContext.                 *)
(***************************************************************************)
NewContextManager == [context |-> EmptyObject, hasContext |-> FALSE]

\* setContext(context): stores the mapping given, dropping the previous one
setContext(manager, context) ==
  [context |-> context, hasContext |-> TRUE]

\* an appendContext in which the existing value wins on a colliding key
appendContext_keepOld(manager, context) ==
  [context |-> ObjectSpread(context, manager.context), hasContext |-> TRUE]

\* appendContext(context): this.context = { ...this.context, ...context }
appendContext(manager, context) ==
  [context |-> ObjectSpread(manager.context, context), hasContext |-> TRUE]

getContext(manager) == manager.context

\* a clone() that forgets to copy the context
clone_noCopy(heap, m) ==
  [managers |-> Append(heap, NewContextManager), id |-> Len(heap) + 1]

\* a clone() that hands out the manager itself
clone_returnsThis(heap, m) == [managers |-> heap, id |-> m]

\* clone(): a new manager object, then clone.setContext({ ...this.getContext() });
\* gives the heap with the new object in it and the new object's id
clone(heap, m) ==
  [managers |-> Append(heap, setContext(NewContextManager,
                                        ObjectSpread(EmptyObject, getContext(heap[m])))),
   id |-> Len(heap) + 1]

ManagerIds == DOMAIN managers

\* the calls made on the managers so far, over all managers
ManagerCalls == LET RECURSIVE Sum(_)
                    Sum(i) == IF i = 0 THEN 0 ELSE Len(hist[i]) + Sum(i - 1)
                IN  Sum(Len(hist))

(***************************************************************************)
(* The context manager used on its own.                                    *)
(***************************************************************************)
ContextKeys == {"a", "b"}
ContextArgs == Mappings(ContextKeys, [a |-> {"1", "2"}, b |-> {"1"}])

MgrSetContext(m, context) ==
  /\ ManagerCalls < MaxManagerCalls
  /\ managers' = [managers EXCEPT ![m] = setContext(@, context)]
  /\ hist' = [hist EXCEPT ![m] = Append(@, <<"setContext", context>>)]
  /\ UNCHANGED <<clones, logVars, targetVars, fileVars, singletonVars, shipVars>>

MgrAppendContext(m, context) ==
  /\ ManagerCalls < MaxManagerCalls
  /\ managers' = [managers EXCEPT ![m] = appendContext(@, context)]
  /\ hist' = [hist EXCEPT ![m] = Append(@, <<"appendContext", context>>)]
  /\ UNCHANGED <<clones, logVars, targetVars, fileVars, singletonVars, shipVars>>

\* const clone = manager.clone(); the clone's first call is the setContext
\* that clone() itself makes with the copy
MgrClone(m) ==
  /\ ManagerCalls < MaxManagerCalls
  /\ LET made == clone(managers, m)
     IN  /\ managers' = made.managers
         /\ hist' = IF made.id \in ManagerIds THEN hist
                    ELSE Append(hist, << <<"setContext", getContext(made.managers[made.id])>> >>)
         /\ clones' = clones \cup {<<m, made.id>>}
  /\ UNCHANGED <<logVars, targetVars, fileVars, singletonVars, shipVars>>

MgrIdle == managers = <<>> /\ hist = <<>> /\ clones = {}

LogIdle ==
  /\ loggers = <<>> /\ parentOf = <<>> /\ givenName = <<>>
  /\ env = [name |-> Undefined]
  /\ shipped = <<>>

MgrInit ==
  /\ managers = <<NewContextManager>>
  /\ hist = << <<>> >>
  /\ clones = {}
  /\ LogIdle /\ TargetIdle /\ FileIdle /\ SingletonIdle /\ ShipIdle

MgrNext ==
  \/ \E m \in ManagerIds, context \in ContextArgs : MgrSetContext(m, context)
  \/ \E m \in ManagerIds, context \in ContextArgs : MgrAppendContext(m, context)
  \/ \E m \in ManagerIds : MgrClone(m)

SpecMgr == MgrInit /\ [][MgrNext]_vars

(***************************************************************************)
(* C3: after M2 = M.clone(), M2.getContext() has the keys and values of    *)
(* M.getContext(), and a later setContext/appendContext call on one of     *)
(* the two leaves the context of the other as it was.                      *)
(***************************************************************************)
C3_CloneIndependent ==
  [][ /\ \A pair \in clones' \ clones :
           /\ pair[2] \notin ManagerIds
           /\ getContext(managers'[pair[2]]) = getContext(managers[pair[1]])
           /\ getContext(managers'[pair[1]]) = getContext(managers[pair[1]])
      /\ \A pair \in clones : \A i \in {1, 2} :
           LET called == pair[i]
               other  == pair[3 - i]
           IN  (hist'[called] # hist[called] /\ hist'[other] = hist[other])
                 => getContext(managers'[other]) = getContext(managers[other])
    ]_vars

\* a clone made of a manager with context, then changed on its own
C3_Witness ==
  \E pair \in clones :
    /\ getContext(managers[pair[1]]) # EmptyObject
    /\ Len(hist[pair[2]]) > 1
    /\ hist[pair[2]][1][2] = getContext(managers[pair[1]])
    /\ getContext(managers[pair[2]]) # getContext(managers[pair[1]])

(***************************************************************************)
(* C4: getContext() is the fold of the calls made on the manager:          *)
(* setContext(B) replaces the mapping by B, appendContext(B) adds B's keys *)
(* with B's value winning.  Key by key: a key is present exactly when a    *)
(* call at or after the last setContext gave it, and its value is the one  *)
(* given by the last such call.                                            *)
(***************************************************************************)
LastSetContext(calls) ==
  LET sets == {i \in 1..Len(calls) : calls[i][1] = "setContext"}
  IN  IF sets = {} THEN 1 ELSE CHOOSE i \in sets : \A j \in sets : j <= i

GivenBy(calls, key) ==
  {i \in LastSetContext(calls)..Len(calls) : key \in DOMAIN calls[i][2]}

C4_ContextIsFold ==
  \A m \in ManagerIds :
    LET context == getContext(managers[m])
    IN  \A key \in ContextKeys :
          LET given == GivenBy(hist[m], key)
          IN  /\ key \in DOMAIN context <=> given # {}
              /\ given # {} =>
                    LET last == CHOOSE i \in given : \A j \in given : j <= i
                    IN  context[key] = hist[m][last][2][key]

\* setContext({a, b}) followed by appendContext({a}) with another value of a
C4_Witness ==
  \E m \in ManagerIds :
    /\ Len(hist[m]) = 3
    /\ hist[m][2][1] = "setContext" /\ DOMAIN hist[m][2][2] = {"a", "b"}
    /\ hist[m][3][1] = "appendContext" /\ DOMAIN hist[m][3][2] = {"a"}
    /\ hist[m][3][2]["a"] # hist[m][2][2]["a"]
    /\ DOMAIN hist[m][1][2] = {"a"}

(***************************************************************************)
(* Loggers: createLogger, getChildLogger and the LogLayer calls they make. *)
(***************************************************************************)
Names == {"app", "svc"}
LogLevels == <<"trace", "debug", "info", "warn", "error", "fatal">>

\* the value of new Date().toISOString(): one token stands for every time
Timestamp == "T"

LoggerIds == DOMAIN loggers
ContextOf(l) == getContext(managers[loggers[l].cm])

\* timestampPlugin.onContextCalled: { ...context, timestamp: new Date().toISOString() }
onContextCalled(context) == ObjectSpread(context, [timestamp |-> Timestamp])

\* logger.withContext(context): the plugin runs, then contextManager.appendContext
withContext(heap, cm, context) ==
  [heap EXCEPT ![cm] = appendContext(@, onContextCalled(context))]

\* an onChildLoggerCreated that forgets the parent's own ancestors
onChildLoggerCreated_onlyParent(heap, parent, childManager) ==
  LET afterSuper ==
        IF heap[parent].hasContext
        THEN [heap EXCEPT ![childManager] =
                setContext(@, ObjectSpread(EmptyObject, getContext(heap[parent])))]
        ELSE heap
      parentContext == getContext(afterSuper[parent])
      parentName == IF "name" \in DOMAIN parentContext THEN parentContext.name ELSE Null
  IN  [afterSuper EXCEPT ![childManager] =
         appendContext(@, [parentNames |-> <<parentName>>])]

\* onChildLoggerCreated(params): super copies the parent's context into the
\* child when the parent has any; then the child gets
\* parentNames: [...(parent.parentNames ?? []), parent.name ?? null]
onChildLoggerCreated(heap, parent, childManager) ==
  LET afterSuper ==
        IF heap[parent].hasContext
        THEN [heap EXCEPT ![childManager] =
                setContext(@, ObjectSpread(EmptyObject, getContext(heap[parent])))]
        ELSE heap
      parentContext == getContext(afterSuper[parent])
      parentName == IF "name" \in DOMAIN parentContext THEN parentContext.name ELSE Null
      parentNames == IF "parentNames" \in DOMAIN parentContext
                     THEN parentContext.parentNames ELSE <<>>
  IN  [afterSuper EXCEPT ![childManager] =
         appendContext(@, [parentNames |-> Append(parentNames, parentName)])]

\* logger.child(): the child gets contextManager.clone(), then the parent's
\* manager is told with onChildLoggerCreated
child(heap, cm) ==
  LET made == clone(heap, cm)
  IN  [managers |-> onChildLoggerCreated(made.managers, cm, made.id), id |-> made.id]

\* a variant that names the child whenever a name is given, the empty one too
getChildLogger_anyString(heap, cm, name) ==
  LET made == child(heap, cm)
  IN  IF name # Undefined
      THEN [managers |-> withContext(made.managers, made.id, [name |-> name]),
            id |-> made.id]
      ELSE made

\* getChildLogger(logger, name): child(), then withContext({ name }) if (name)
getChildLogger(heap, cm, name) ==
  LET made == child(heap, cm)
  IN  IF name # Undefined /\ name # ""
      THEN [managers |-> withContext(made.managers, made.id, [name |-> name]),
            id |-> made.id]
      ELSE made

\* a log call that keeps its metadata in the logger's context
formatLog_metadataIntoContext(heap, cm, logLevel, metadata) ==
  [managers |-> [heap EXCEPT ![cm] = appendContext(@, metadata)],
   record |-> [logLevel |-> logLevel,
               context |-> ObjectSpread(getContext(heap[cm]), metadata),
               metadata |-> metadata]]

\* logger.withMetadata(metadata).<level>(...): the record handed to every
\* transport carries the logger's context and the call's metadata apart
formatLog(heap, cm, logLevel, metadata) ==
  [managers |-> heap,
   record |-> [logLevel |-> logLevel,
               context |-> getContext(heap[cm]),
               metadata |-> metadata]]

\* createLogger({ name, logToConsole: false })
LogCreateLogger(name) ==
  /\ LET resolvedName == IF name = Undefined THEN env.name ELSE name
         cm == Len(managers) + 1
         fresh == Append(managers, NewContextManager)
     IN  /\ managers' = IF resolvedName # Undefined
                        THEN withContext(fresh, cm, [name |-> resolvedName])
                        ELSE fresh
         /\ loggers' = Append(loggers, [cm |-> cm])
  /\ parentOf' = Append(parentOf, 0)
  /\ givenName' = Append(givenName, name)
  /\ shipped' = <<>>
  /\ UNCHANGED <<hist, clones, env, targetVars, fileVars, singletonVars, shipVars>>

LogGetChildLogger(p, name) ==
  /\ LET made == getChildLogger(managers, loggers[p].cm, name)
     IN  /\ managers' = made.managers
         /\ loggers' = Append(loggers, [cm |-> made.id])
  /\ parentOf' = Append(parentOf, p)
  /\ givenName' = Append(givenName, name)
  /\ shipped' = <<>>
  /\ UNCHANGED <<hist, clones, env, targetVars, fileVars, singletonVars, shipVars>>

LogWithContext(l, context) ==
  /\ managers' = withContext(managers, loggers[l].cm, context)
  /\ shipped' = <<>>
  /\ UNCHANGED <<hist, clones, loggers, parentOf, givenName, env,
               targetVars, fileVars, singletonVars, shipVars>>

\* setContext called on the logger's manager directly
LogSetContext(l, context) ==
  /\ managers' = [managers EXCEPT ![loggers[l].cm] = setContext(@, context)]
  /\ shipped' = <<>>
  /\ UNCHANGED <<hist, clones, loggers, parentOf, givenName, env,
               targetVars, fileVars, singletonVars, shipVars>>

\* appendContext called on the logger's manager directly
LogAppendContext(l, context) ==
  /\ managers' = [managers EXCEPT ![loggers[l].cm] = appendContext(@, context)]
  /\ shipped' = <<>>
  /\ UNCHANGED <<hist, clones, loggers, parentOf, givenName, env,
               targetVars, fileVars, singletonVars, shipVars>>

\* logger.withMetadata(metadata).<level>('...')
LogCall(l, logLevel, metadata) ==
  /\ LET made == formatLog(managers, loggers[l].cm, logLevel, metadata)
     IN  /\ managers' = made.managers
         /\ shipped' = <<[logger |-> l, record |-> made.record]>>
  /\ UNCHANGED <<hist, clones, loggers, parentOf, givenName, env,
               targetVars, fileVars, singletonVars, shipVars>>

\* no logger yet, on a platform whose getName() gives one of packageNames
LogInit(packageNames) ==
  /\ managers = <<>> /\ hist = <<>> /\ clones = {}
  /\ loggers = <<>> /\ parentOf = <<>> /\ givenName = <<>>
  /\ env \in [name : packageNames]
  /\ shipped = <<>>
  /\ TargetIdle /\ FileIdle /\ SingletonIdle /\ ShipIdle

(***************************************************************************)
(* Chains of loggers: createLogger and getChildLogger only.                *)
(***************************************************************************)
ChainNext ==
  \/ \E name \in Names \cup {"", Undefined} :
       Len(loggers) < MaxChain /\ LogCreateLogger(name)
  \/ \E p \in LoggerIds, name \in Names \cup {"", Undefined} :
       Len(loggers) < MaxChain /\ LogGetChildLogger(p, name)

SpecChain == LogInit({Undefined, "lognow"}) /\ [][ChainNext]_vars

(***************************************************************************)
(* C1: in a chain built by createLogger with name n0 and getChildLogger    *)
(* calls with names n1, ..., nk, the logger at depth k has context.name nk *)
(* and context.parentNames <<n0, ..., n(k-1)>>; the root has no            *)
(* parentNames.                                                            *)
(***************************************************************************)
RECURSIVE AncestorNames(_)
AncestorNames(l) ==
  IF parentOf[l] = 0 THEN <<>>
  ELSE Append(AncestorNames(parentOf[l]), givenName[parentOf[l]])

\* the logger and all its ancestors were created with a name
RECURSIVE NamedChain(_)
NamedChain(l) ==
  IF parentOf[l] = 0 THEN givenName[l] # Undefined
  ELSE givenName[l] \notin {Undefined, ""} /\ NamedChain(parentOf[l])

C1_ParentNamesAreAncestors ==
  \A l \in LoggerIds :
    NamedChain(l) =>
      /\ "name" \in DOMAIN ContextOf(l) /\ ContextOf(l).name = givenName[l]
      /\ IF parentOf[l] = 0
         THEN "parentNames" \notin DOMAIN ContextOf(l)
         ELSE /\ "parentNames" \in DOMAIN ContextOf(l)
              /\ ContextOf(l).parentNames = AncestorNames(l)

\* a named logger two levels below a named root, the two ancestors named apart
C1_Witness ==
  \E l \in LoggerIds :
    /\ NamedChain(l)
    /\ parentOf[l] # 0 /\ parentOf[parentOf[l]] # 0
    /\ Len(ContextOf(l).parentNames) = 2
    /\ ContextOf(l).parentNames[1] # ContextOf(l).parentNames[2]

(***************************************************************************)
(* Loggers whose ancestors are renamed and changed after child creation.   *)
(***************************************************************************)
LogNext ==
  \/ Len(loggers) < MaxLoggers /\ LogCreateLogger("app")
  \/ \E p \in LoggerIds, name \in {"svc", Undefined} :
       Len(loggers) < MaxLoggers /\ LogGetChildLogger(p, name)
  \/ \E l \in LoggerIds : LogWithContext(l, [name |-> "lib"])
  \/ \E l \in LoggerIds : LogSetContext(l, [name |-> "lib"])
  \/ \E l \in LoggerIds : LogAppendContext(l, [name |-> "lib"])

SpecLog == LogInit({"lognow"}) /\ [][LogNext]_vars

(***************************************************************************)
(* C2: no call on an ancestor of a logger (withContext({ name }),          *)
(* setContext, appendContext, creating a further child) changes the        *)
(* logger's parentNames.                                                   *)
(***************************************************************************)
RECURSIVE IsAncestor(_, _)
IsAncestor(a, l) ==
  parentOf[l] # 0 /\ (parentOf[l] = a \/ IsAncestor(a, parentOf[l]))

\* the parentNames entry of the logger's context, if it has one
ParentNamesEntry(l) ==
  [k \in DOMAIN ContextOf(l) \cap {"parentNames"} |-> ContextOf(l)[k]]

CalledOn(a) ==
  \/ LogWithContext(a, [name |-> "lib"])
  \/ LogSetContext(a, [name |-> "lib"])
  \/ LogAppendContext(a, [name |-> "lib"])
  \/ \E name \in {"svc", Undefined} : LogGetChildLogger(a, name)

C2_ParentNamesFrozen ==
  [][ \A a \in LoggerIds :
        CalledOn(a) =>
          \A l \in LoggerIds :
            IsAncestor(a, l) => ParentNamesEntry(l)' = ParentNamesEntry(l)
    ]_vars

\* two children of one root, the root renamed between their creations
C2_Witness ==
  \E l, later \in LoggerIds :
    /\ l < later
    /\ parentOf[l] # 0 /\ parentOf[l] = parentOf[later]
    /\ ParentNamesEntry(l) = [parentNames |-> <<"app">>]
    /\ ParentNamesEntry(later) = [parentNames |-> <<"lib">>]

(***************************************************************************)
(* Log calls with metadata on loggers with context.                        *)
(***************************************************************************)
WithContextArgs == {[k |-> "v"], [m |-> "c"], [name |-> "lib"]}
MetadataArgs == {[m |-> "1"], [k |-> "1", j |-> "2"], EmptyObject}

MetaNext ==
  \/ \E name \in {"app", Undefined} :
       Len(loggers) < MaxMetaLoggers /\ LogCreateLogger(name)
  \/ \E l \in LoggerIds, context \in WithContextArgs : LogWithContext(l, context)
  \/ \E l \in LoggerIds, i \in DOMAIN LogLevels, metadata \in MetadataArgs :
       LogCall(l, LogLevels[i], metadata)

SpecMeta == LogInit({"lognow"}) /\ [][MetaNext]_vars

(***************************************************************************)
(* C5: a log call made with withMetadata(m) puts no key of m into the      *)
(* logger's context, and every key the context has (added with             *)
(* withContext) is still there, with its value, after the log call.        *)
(***************************************************************************)
C5_MetadataNotInContext ==
  [][ \A l \in LoggerIds, i \in DOMAIN LogLevels, metadata \in MetadataArgs :
        LogCall(l, LogLevels[i], metadata) =>
          LET before == ContextOf(l)
              after  == ContextOf(l)'
          IN  /\ \A key \in DOMAIN metadata :
                   key \in DOMAIN after => key \in DOMAIN before
              /\ \A key \in DOMAIN before :
                   key \in DOMAIN after /\ after[key] = before[key]
    ]_vars

\* a record with metadata m shipped by a logger whose context has k and not m
C5_Witness ==
  /\ shipped # <<>>
  /\ "m" \in DOMAIN shipped[1].record.metadata
  /\ LET context == ContextOf(shipped[1].logger)
     IN  /\ "k" \in DOMAIN context /\ context.k = "v"
         /\ "m" \notin DOMAIN context
         /\ shipped[1].record.context = context

(***************************************************************************)
(* The target classifier of log.ts.  An instance is described by what the  *)
(* type guards look at: which object it is, typeof, null, the name of its  *)
(* constructor, and which of its properties are functions.                 *)
(***************************************************************************)
ConsoleMethods == {"debug", "error", "info", "trace", "warn"}
TargetMethods == ConsoleMethods \cup {"write"}

StdStreams ==
  { [identity |-> id, typeof |-> "object", isNull |-> FALSE,
     constructorName |-> "WriteStream", callable |-> {"write"}] :
    id \in {"process.stdout", "process.stderr"} }

AmbientConsoles ==
  { [identity |-> "globalThis.console", typeof |-> "object", isNull |-> FALSE,
     constructorName |-> c, callable |-> ConsoleMethods] :
    c \in {"Object", "Console"} }

OtherInstances ==
  { [identity |-> "other", typeof |-> "object", isNull |-> FALSE,
     constructorName |-> c, callable |-> m] :
    c \in {"Object", "Console"}, m \in SUBSET TargetMethods }
  \cup
  { [identity |-> "other", typeof |-> "function", isNull |-> FALSE,
     constructorName |-> "Function", callable |-> m] :
    m \in {{}, {"write"}, TargetMethods} }
  \cup
  { [identity |-> "other", typeof |-> "object", isNull |-> TRUE,
     constructorName |-> "", callable |-> {}] }

\* process.stdout and process.stderr exist only where process is defined
Instances(hasProcess) ==
  AmbientConsoles \cup OtherInstances \cup (IF hasProcess THEN StdStreams ELSE {})

isStreamStdout(i) == processDefined /\ i.identity = "process.stdout"

isStreamStderr(i) == processDefined /\ i.identity = "process.stderr"

isStreamLike(i) == i.typeof = "object" /\ ~i.isNull /\ "write" \in i.callable

isConsole(i) ==
  /\ i.typeof = "object" /\ ~i.isNull
  /\ (i.identity = "globalThis.console" \/ i.constructorName = "Console")

isConsoleLike(i) ==
  i.typeof = "object" /\ ~i.isNull /\ ConsoleMethods \subseteq i.callable

TypedTarget(i, type) == [thrown |-> "", type |-> type, target |-> i]

\* a variant that tests the structure before the identity
createLogBasicTypedTarget_structureFirst(i) ==
  IF isConsoleLike(i) THEN TypedTarget(i, "ConsoleLike")
  ELSE IF isStreamLike(i) THEN TypedTarget(i, "StreamLike")
  ELSE IF isStreamStdout(i) THEN TypedTarget(i, "StreamStdout")
  ELSE IF isStreamStderr(i) THEN TypedTarget(i, "StreamStderr")
  ELSE IF isConsole(i) THEN TypedTarget(i, "Console")
  ELSE [thrown |-> "Unable to identify ILogBasic type", type |-> "", target |-> <<>>]

createLogBasicTypedTarget(i) ==
  IF isStreamStdout(i) THEN TypedTarget(i, "StreamStdout")
  ELSE IF isStreamStderr(i) THEN TypedTarget(i, "StreamStderr")
  ELSE IF isConsole(i) THEN TypedTarget(i, "Console")
  ELSE IF isConsoleLike(i) THEN TypedTarget(i, "ConsoleLike")
  ELSE IF isStreamLike(i) THEN TypedTarget(i, "StreamLike")
  ELSE [thrown |-> "Unable to identify ILogBasic type", type |-> "", target |-> <<>>]

TargetClassify ==
  /\ typed = <<>>
  /\ typed' = createLogBasicTypedTarget(instance)
  /\ UNCHANGED <<processDefined, instance>>
  /\ UNCHANGED <<mgrVars, logVars, fileVars, singletonVars, shipVars>>

TargetInit ==
  /\ processDefined \in BOOLEAN
  /\ instance \in Instances(processDefined)
  /\ typed = <<>>
  /\ MgrIdle /\ LogIdle /\ FileIdle /\ SingletonIdle /\ ShipIdle

TargetNext == TargetClassify

SpecTarget == TargetInit /\ [][TargetNext]_vars

(***************************************************************************)
(* C6: createLogBasicTypedTarget gives exactly one kind with the input as  *)
(* target: StreamStdout for process.stdout and StreamStderr for            *)
(* process.stderr, whatever their structure; Console for the ambient       *)
(* console (and for an object constructed by a Console constructor);       *)
(* ConsoleLike for any other object whose debug, error, info, trace and    *)
(* warn are all callable; StreamLike for any other object with a callable  *)
(* write; it throws for everything else.                                   *)
(***************************************************************************)
C6_Classification ==
  typed # <<>> =>
    LET i == instance
        plain == /\ i.identity = "other" /\ i.typeof = "object" /\ ~i.isNull
                 /\ i.constructorName # "Console"
        kind ==
          IF i.identity = "process.stdout" THEN "StreamStdout"
          ELSE IF i.identity = "process.stderr" THEN "StreamStderr"
          ELSE IF i.identity = "globalThis.console" THEN "Console"
          ELSE IF i.typeof = "object" /\ i.constructorName = "Console" THEN "Console"
          ELSE IF plain /\ ConsoleMethods \subseteq i.callable THEN "ConsoleLike"
          ELSE IF plain /\ "write" \in i.callable THEN "StreamLike"
          ELSE ""
    IN  IF kind = ""
        THEN typed.thrown # "" /\ typed.type = ""
        ELSE typed.thrown = "" /\ typed.type = kind /\ typed.target = i

\* process.stdout, which has a callable write, was classified by identity
C6_Witness ==
  /\ typed # <<>>
  /\ instance.identity = "process.stdout" /\ "write" \in instance.callable
  /\ typed.type = "StreamStdout" /\ typed.target = instance

(***************************************************************************)
(* Option values.  A JavaScript value that code tests with typeof, for     *)
(* null or undefined, or for being a plain object carries its kind.        *)
(***************************************************************************)
Bool(b) == [kind |-> "boolean", val |-> b]
Str(s) == [kind |-> "string", val |-> s]
Obj(o) == [kind |-> "object", val |-> o]
Undef == [kind |-> "undefined", val |-> <<>>]

isPlainObject(value) == value.kind = "object"

\* a variant that assigns the whole value of every key, plain object or not
defu_shallow(baseObject, defaults) ==
  LET assigned == { k \in DOMAIN baseObject :
                      baseObject[k].kind \notin {"undefined", "null"} }
  IN  [k \in (DOMAIN defaults) \cup assigned |->
         IF k \in assigned THEN baseObject[k] ELSE defaults[k]]

\* defu(baseObject, defaults): the defaults, with every key of baseObject
\* that is not null or undefined assigned over them; where both values are
\* plain objects they are merged in the same way
RECURSIVE defu(_, _)
defu(baseObject, defaults) ==
  LET assigned == { k \in DOMAIN baseObject :
                      baseObject[k].kind \notin {"undefined", "null"} }
  IN  [k \in (DOMAIN defaults) \cup assigned |->
         IF k \notin assigned THEN defaults[k]
         ELSE IF /\ isPlainObject(baseObject[k])
                 /\ k \in DOMAIN defaults /\ isPlainObject(defaults[k])
              THEN Obj(defu(baseObject[k].val, defaults[k].val))
              ELSE baseObject[k]]

(***************************************************************************)
(* The file transport cache of the Node platform.  A path is the sequence  *)
(* of its characters; the fixed pieces of a path are single tokens.        *)
(***************************************************************************)
MaxFileTransports == 2

Homedir == <<"/", "h">>
ReservedCharacters == {"<", ">", ":", "\"", "/", "\\", "|", "?", "*"}

\* filenamify(string, { replacement }): reserved characters replaced
filenamify(string, replacement) ==
  [i \in DOMAIN string |->
     IF string[i] \in ReservedCharacters THEN replacement ELSE string[i]]

\* untildify(path): a leading ~ that stands alone or before a separator
untildify(pathWithTilde) ==
  IF /\ Len(pathWithTilde) >= 1 /\ pathWithTilde[1] = "~"
     /\ (Len(pathWithTilde) = 1 \/ pathWithTilde[2] \in {"/", "\\"})
  THEN Homedir \o Tail(pathWithTilde)
  ELSE pathWithTilde

RECURSIVE normalize(_)
normalize(path) ==
  IF Len(path) < 2 THEN path
  ELSE IF path[1] = "/" /\ path[2] = "/" THEN normalize(Tail(path))
       ELSE <<path[1]>> \o normalize(Tail(path))

\* path.join(a, b) on a POSIX platform
pathJoin(a, b) == normalize(a \o <<"/">> \o b)

getPlatformLogPath(name) ==
  IF env.platform = "darwin"
  THEN pathJoin(pathJoin(pathJoin(Homedir, <<"Library">>), <<"Logs">>), name)
  ELSE pathJoin(pathJoin(pathJoin(Homedir, <<".local">>), <<"state">>), name)

\* the filename createFileTransport uses as the key of the Map
ResolvedFilename(name, logDirectoryOrOptions) ==
  LET cleanName == filenamify(IF name.kind = "undefined" THEN <<"default">> ELSE name.val, "-")
      options == IF logDirectoryOrOptions.kind = "object"
                 THEN logDirectoryOrOptions.val ELSE EmptyObject
  IN  untildify(
        IF "filename" \in DOMAIN options /\ options.filename.kind = "string"
        THEN options.filename.val
        ELSE pathJoin(IF logDirectoryOrOptions.kind = "string"
                      THEN logDirectoryOrOptions.val
                      ELSE getPlatformLogPath(cleanName),
                      cleanName \o <<"-%DATE%.log">>))

\* new JsonFileTransport(params): the transport, or the error it throws
JsonFileTransport(params) ==
  LET resolvedParams == defu(params, [filename |-> Str(<<"default-%DATE%.log">>)])
      given == IF "fieldNames" \in DOMAIN resolvedParams
               THEN resolvedParams.fieldNames.val ELSE EmptyObject
      fieldNames == ObjectSpread([level |-> "level", message |-> "message",
                                  timestamp |-> "timestamp"], given)
      levelMap == IF "levelMap" \in DOMAIN resolvedParams
                  THEN resolvedParams.levelMap.val ELSE EmptyObject
  IN  IF \/ fieldNames.timestamp # "timestamp"
         \/ fieldNames.message \notin {"message", "messages"}
         \/ fieldNames.level # "level"
      THEN [thrown |-> "Field name customization is not supported", params |-> <<>>]
      ELSE IF levelMap # EmptyObject
      THEN [thrown |-> "Level map customization is not supported", params |-> <<>>]
      ELSE [thrown |-> "", params |-> resolvedParams]

FileTransportDefaults(filename) ==
  [compressOnRotate |-> Bool(TRUE), dateFormat |-> Str("YMD"),
   filename |-> Str(filename), frequency |-> Str("daily")]

\* a variant that builds and stores a transport on every call
createFileTransport_noHas(byPath, heap, name, logDirectoryOrOptions) ==
  LET filename == ResolvedFilename(name, logDirectoryOrOptions)
      restOfOptions == IF logDirectoryOrOptions.kind = "object"
                       THEN ObjectRest(logDirectoryOrOptions.val, {"filename"})
                       ELSE EmptyObject
      made == JsonFileTransport(defu(restOfOptions, FileTransportDefaults(filename)))
  IN  IF made.thrown # ""
      THEN [fileTransportsByPath |-> byPath, transports |-> heap,
            thrown |-> made.thrown, returned |-> 0]
      ELSE [fileTransportsByPath |->
              [f \in (DOMAIN byPath) \cup {filename} |->
                 IF f = filename THEN Len(heap) + 1 ELSE byPath[f]],
            transports |-> Append(heap, made.params),
            thrown |-> "", returned |-> Len(heap) + 1]

\* a variant that stores the key before it constructs the transport
createFileTransport_setFirst(byPath, heap, name, logDirectoryOrOptions) ==
  LET filename == ResolvedFilename(name, logDirectoryOrOptions)
      restOfOptions == IF logDirectoryOrOptions.kind = "object"
                       THEN ObjectRest(logDirectoryOrOptions.val, {"filename"})
                       ELSE EmptyObject
      made == JsonFileTransport(defu(restOfOptions, FileTransportDefaults(filename)))
      stored == [f \in (DOMAIN byPath) \cup {filename} |->
                   IF f = filename THEN Len(heap) + 1 ELSE byPath[f]]
  IN  IF filename \in DOMAIN byPath
      THEN [fileTransportsByPath |-> byPath, transports |-> heap,
            thrown |-> "", returned |-> byPath[filename]]
      ELSE IF made.thrown # ""
      THEN [fileTransportsByPath |-> stored, transports |-> Append(heap, <<>>),
            thrown |-> made.thrown, returned |-> 0]
      ELSE [fileTransportsByPath |-> stored,
            transports |-> Append(heap, made.params),
            thrown |-> "", returned |-> Len(heap) + 1]

\* a variant in which the later call replaces the entry of its key
createFileTransport_replaces(byPath, heap, name, logDirectoryOrOptions) ==
  LET filename == ResolvedFilename(name, logDirectoryOrOptions)
      restOfOptions == IF logDirectoryOrOptions.kind = "object"
                       THEN ObjectRest(logDirectoryOrOptions.val, {"filename"})
                       ELSE EmptyObject
      made == JsonFileTransport(defu(restOfOptions, FileTransportDefaults(filename)))
  IN  IF made.thrown # ""
      THEN [fileTransportsByPath |-> byPath, transports |-> heap,
            thrown |-> made.thrown, returned |-> 0]
      ELSE IF filename \in DOMAIN byPath
      THEN [fileTransportsByPath |-> byPath,
            transports |-> [heap EXCEPT ![byPath[filename]] = made.params],
            thrown |-> "", returned |-> byPath[filename]]
      ELSE [fileTransportsByPath |->
              [f \in (DOMAIN byPath) \cup {filename} |->
                 IF f = filename THEN Len(heap) + 1 ELSE byPath[f]],
            transports |-> Append(heap, made.params),
            thrown |-> "", returned |-> Len(heap) + 1]

createFileTransport(byPath, heap, name, logDirectoryOrOptions) ==
  LET filename == ResolvedFilename(name, logDirectoryOrOptions)
      restOfOptions == IF logDirectoryOrOptions.kind = "object"
                       THEN ObjectRest(logDirectoryOrOptions.val, {"filename"})
                       ELSE EmptyObject
      made == JsonFileTransport(defu(restOfOptions, FileTransportDefaults(filename)))
  IN  IF filename \in DOMAIN byPath
      THEN [fileTransportsByPath |-> byPath, transports |-> heap,
            thrown |-> "", returned |-> byPath[filename]]
      ELSE IF made.thrown # ""
      THEN [fileTransportsByPath |-> byPath, transports |-> heap,
            thrown |-> made.thrown, returned |-> 0]
      ELSE [fileTransportsByPath |->
              [f \in (DOMAIN byPath) \cup {filename} |->
                 IF f = filename THEN Len(heap) + 1 ELSE byPath[f]],
            transports |-> Append(heap, made.params),
            thrown |-> "", returned |-> Len(heap) + 1]

FileNames == {Undef, Str(<<"a", "/", "b">>), Str(<<"a", "-", "b">>)}

FileArgs ==
  { Undef,
    Str(<<"~", "/", "l">>),
    Str(<<"/", "h", "/", "l", "/">>),
    Obj([filename |-> Str(<<"~", "/", "f">>)]),
    Obj([frequency |-> Str("hourly")]),
    Obj([levelMap |-> Obj([info |-> "INFO"])]),
    Obj([filename |-> Str(<<"/", "h", "/", "f">>),
         fieldNames |-> Obj([level |-> "severity"])]) }

FileCreate(name, logDirectoryOrOptions) ==
  /\ LET made == createFileTransport(fileTransportsByPath, transports,
                                     name, logDirectoryOrOptions)
     IN  /\ fileTransportsByPath' = made.fileTransportsByPath
         /\ transports' = made.transports
         /\ lastCreate' = [name |-> name, argument |-> logDirectoryOrOptions,
                           filename |-> ResolvedFilename(name, logDirectoryOrOptions),
                           thrown |-> made.thrown, returned |-> made.returned,
                           constructed |-> Len(made.transports) > Len(transports)]
  /\ UNCHANGED <<mgrVars, logVars, targetVars, singletonVars, shipVars>>

FileInit ==
  /\ fileTransportsByPath = <<>> /\ transports = <<>> /\ lastCreate = <<>>
  /\ MgrIdle
  /\ loggers = <<>> /\ parentOf = <<>> /\ givenName = <<>> /\ shipped = <<>>
  /\ env \in [name : {Undefined}, platform : {"darwin", "linux"}]
  /\ TargetIdle /\ SingletonIdle /\ ShipIdle

FileNext ==
  \E name \in FileNames, logDirectoryOrOptions \in FileArgs :
    /\ \/ Len(transports) < MaxFileTransports
       \/ ResolvedFilename(name, logDirectoryOrOptions) \in DOMAIN fileTransportsByPath
    /\ FileCreate(name, logDirectoryOrOptions)

SpecFile == FileInit /\ [][FileNext]_vars

(***************************************************************************)
(* C7: over every sequence of createFileTransport calls, at most one       *)
(* transport is constructed per resolved filename, the Map keeps that      *)
(* transport under that filename, and every call that returns gives the    *)
(* transport of its filename.                                              *)
(***************************************************************************)
C7_OneTransportPerFilename ==
  /\ \A i, j \in DOMAIN transports :
       transports[i].filename = transports[j].filename => i = j
  /\ \A filename \in DOMAIN fileTransportsByPath :
       /\ fileTransportsByPath[filename] \in DOMAIN transports
       /\ transports[fileTransportsByPath[filename]].filename = Str(filename)
  /\ lastCreate # <<>> /\ lastCreate.thrown = "" =>
       /\ lastCreate.filename \in DOMAIN fileTransportsByPath
       /\ lastCreate.returned = fileTransportsByPath[lastCreate.filename]

\* a call that names the directory with a tilde got the first transport back
\* after other transports had been constructed
C7_Witness ==
  /\ lastCreate # <<>>
  /\ ~lastCreate.constructed /\ lastCreate.returned = 1
  /\ lastCreate.argument = Str(<<"~", "/", "l">>)
  /\ Len(transports) >= 2

(***************************************************************************)
(* The singleton logger of log.ts: currentOptions, _log, the Proxy `log`   *)
(* and setDefaultLogOptions.                                               *)
(***************************************************************************)
MaxSetCalls == 2

\* the adapters whose getName returns a constant, 'Main' and 'Renderer'
ElectronAdapters == {"electron-main", "electron-renderer"}

\* the name getter asks the platform when the object is read
DEFAULT_LOG_OPTIONS ==
  [logJsonToConsole |-> Bool(FALSE),
   logJsonToFile |-> Bool(FALSE),
   logToConsole |-> Bool(TRUE),
   name |-> IF "adapter" \in DOMAIN env /\ env.adapter \in ElectronAdapters
            THEN Str(env.name)
            ELSE IF env.name = Undefined THEN Undef ELSE Str(env.name),
   verbose |-> Bool(FALSE)]

LogOptionsArgs ==
  { [name |-> Str("first-name")],
    [name |-> Str("second-name")],
    [verbose |-> Bool(TRUE)],
    [name |-> Undef, verbose |-> Bool(FALSE)],
    [logToConsole |-> Bool(FALSE)],
    [logToConsole |-> Obj([showTime |-> Bool(FALSE)])],
    [logToConsole |-> Obj([colorize |-> Bool(FALSE), showTime |-> Bool(TRUE)])] }

\* setDefaultLogOptions(options)
SingletonSetDefaultLogOptions(options) ==
  /\ currentOptions' = defu(options, currentOptions)
  /\ singletonLog' = 0
  /\ givenOptions' = Append(givenOptions, options)
  /\ lastAccess' = <<>>
  /\ UNCHANGED created
  /\ UNCHANGED <<mgrVars, logVars, targetVars, fileVars, shipVars>>

\* log.<property>: the get trap of the Proxy, _log ??= createLogger(currentOptions)
SingletonGet ==
  /\ IF singletonLog = 0
     THEN /\ created' = Append(created, [options |-> currentOptions,
                                         after |-> Len(givenOptions)])
          /\ singletonLog' = Len(created) + 1
     ELSE UNCHANGED <<created, singletonLog>>
  /\ lastAccess' = <<[logger |-> singletonLog', after |-> Len(givenOptions)]>>
  /\ UNCHANGED <<currentOptions, givenOptions>>
  /\ UNCHANGED <<mgrVars, logVars, targetVars, fileVars, shipVars>>

SingletonInit ==
  /\ env \in [name : {Undefined, "lognow"}]
  /\ currentOptions = DEFAULT_LOG_OPTIONS
  /\ singletonLog = 0 /\ created = <<>> /\ givenOptions = <<>> /\ lastAccess = <<>>
  /\ MgrIdle
  /\ loggers = <<>> /\ parentOf = <<>> /\ givenName = <<>> /\ shipped = <<>>
  /\ TargetIdle /\ FileIdle /\ ShipIdle

SingletonNext ==
  \/ \E options \in LogOptionsArgs :
       Len(givenOptions) < MaxSetCalls /\ SingletonSetDefaultLogOptions(options)
  \/ SingletonGet

SpecSingleton == SingletonInit /\ [][SingletonNext]_vars

\* the default options followed by the first n setDefaultLogOptions arguments
OptionCalls(n) == <<DEFAULT_LOG_OPTIONS>> \o SubSeq(givenOptions, 1, n)

\* the calls that give a key: the key is there and neither undefined nor null
Gives(calls, key) ==
  { i \in DOMAIN calls :
      key \in DOMAIN calls[i] /\ calls[i][key].kind \notin {"undefined", "null"} }

Latest(indices) == CHOOSE i \in indices : \A j \in indices : j <= i

\* the last calls giving the key that all give a plain object
PlainRun(calls, key) ==
  { i \in Gives(calls, key) :
      \A j \in Gives(calls, key) : j >= i => isPlainObject(calls[j][key]) }

OptionKeys(calls) ==
  DOMAIN calls[1] \cup { key \in UNION { DOMAIN calls[i] : i \in DOMAIN calls } :
                            Gives(calls, key) # {} }

\* per key the value of the latest call giving it, whatever the value
LatestWins(calls) ==
  [key \in OptionKeys(calls) |->
     IF Gives(calls, key) = {} THEN calls[1][key]
     ELSE calls[Latest(Gives(calls, key))][key]]

\* per key the value of the latest call giving it; where that is a plain
\* object, per key of the plain objects given last in a row the latest value
LatestWinsInPlainObjects(calls) ==
  [key \in OptionKeys(calls) |->
     IF Gives(calls, key) = {} THEN calls[1][key]
     ELSE LET last == calls[Latest(Gives(calls, key))][key]
              run == PlainRun(calls, key)
          IN  IF ~isPlainObject(last) THEN last
              ELSE Obj([sub \in UNION { DOMAIN calls[i][key].val : i \in run } |->
                          calls[Latest({ i \in run : sub \in DOMAIN calls[i][key].val })]
                            [key].val[sub]])]

OneLoggerPerConfiguration ==
  /\ \A i, j \in DOMAIN created : created[i].after = created[j].after => i = j
  /\ lastAccess # <<>> =>
       /\ lastAccess[1].logger \in DOMAIN created
       /\ created[lastAccess[1].logger].after = lastAccess[1].after

(***************************************************************************)
(* C8 as stated: the logger an access on `log` builds is made from the     *)
(* options in which, per key, the latest setDefaultLogOptions call giving  *)
(* the key wins with its value, and all accesses between two               *)
(* setDefaultLogOptions calls go to one logger.                            *)
(***************************************************************************)
C8_LaterCallWinsPerKey ==
  /\ \A i \in DOMAIN created :
       created[i].options = LatestWins(OptionCalls(created[i].after))
  /\ OneLoggerPerConfiguration

(***************************************************************************)
(* C8, amended: the logger an access on `log` builds is made from the      *)
(* options in which, per key, the latest call giving the key (with a value *)
(* other than undefined or null) wins, except that plain-object values     *)
(* given one after the other for a key are merged key by key, the later    *)
(* winning; all accesses between two setDefaultLogOptions calls go to one  *)
(* logger, created at the first of them.                                   *)
(***************************************************************************)
C8_SingletonFromMergedOptions ==
  /\ \A i \in DOMAIN created :
       created[i].options = LatestWinsInPlainObjects(OptionCalls(created[i].after))
  /\ OneLoggerPerConfiguration

\* two logToConsole objects given one after the other and an access since:
\* the logger is made from the keys of both, the later showTime winning
C8_Witness ==
  /\ Len(givenOptions) >= 2 /\ Len(created) >= 1
  /\ lastAccess # <<>> /\ lastAccess[1].logger = singletonLog
  /\ LET options == created[singletonLog].options
     IN  /\ givenOptions[Len(givenOptions)] =
              [logToConsole |-> Obj([showTime |-> Bool(FALSE)])]
         /\ options.logToConsole =
              Obj([colorize |-> Bool(FALSE), showTime |-> Bool(FALSE)])
         /\ options.verbose = Bool(FALSE)

(***************************************************************************)
(* The basic transports.  A string they build is a sequence of runs, a run *)
(* being a piece of text and the style it is printed in.  What a call      *)
(* does to the outside is the sequence of its effects: the calls on the    *)
(* functions of the config and on the methods of the target.               *)
(***************************************************************************)
MAX_WIDTH == 120

Run(style, text) == <<[style |-> style, text |-> text]>>

RECURSIVE StringLength(_)
StringLength(string) ==
  IF string = <<>> THEN 0 ELSE Len(Head(string).text) + StringLength(Tail(string))

\* array.filter(Boolean) on strings: undefined and '' are dropped
FilterBoolean(parts) == SelectSeq(parts, LAMBDA part : StringLength(part) > 0)

RECURSIVE Join(_, _)
Join(parts, separator) ==
  IF parts = <<>> THEN <<>>
  ELSE IF Len(parts) = 1 THEN parts[1]
  ELSE parts[1] \o Run("", separator) \o Join(Tail(parts), separator)

\* ansi-colors: c.<style>(text) when colorize, the text itself otherwise
Colored(style, text, colorize) == Run(IF colorize THEN style ELSE "", text)

RECURSIVE padStart(_, _, _)
padStart(string, targetLength, padString) ==
  IF Len(string) >= targetLength THEN string
  ELSE padStart(padString \o string, targetLength, padString)

\* a Date, as its local time fields
Now == [hours |-> 9, minutes |-> 30, seconds |-> 0, milliseconds |-> 5]
Earlier == [hours |-> 23, minutes |-> 5, seconds |-> 59, milliseconds |-> 120]

formatTime(date, colorize) ==
  Colored("gray",
          padStart(ToString(date.hours), 2, "0") \o ":" \o
          padStart(ToString(date.minutes), 2, "0") \o ":" \o
          padStart(ToString(date.seconds), 2, "0") \o "." \o
          padStart(ToString(date.milliseconds), 3, "0"),
          colorize)

getLogLevelString(level, colorize) ==
  CASE level = "debug" -> Colored("bold.green", "DEBUG", colorize)
    [] level = "error" -> Colored("bold.red", "ERROR", colorize)
    [] level = "fatal" -> Colored("bold.red", "FATAL", colorize)
    [] level = "info" -> Colored("bold.blue", "INFO ", colorize)
    [] level = "trace" -> Colored("bold.gray", "TRACE", colorize)
    [] level = "warn" -> Colored("bold.yellow", "WARN ", colorize)

RECURSIVE Bracketed(_)
Bracketed(names) ==
  IF names = <<>> THEN ""
  ELSE "[" \o (IF Head(names) = Null THEN "null" ELSE Head(names)) \o "]"
       \o Bracketed(Tail(names))

\* name and parentNames are given as sequences: empty for undefined
getNamePrefix(name, parentNames, colorize) ==
  IF name = <<>> /\ parentNames = <<>> THEN Run("", "|")
  ELSE Colored("bold.gray",
               Bracketed((IF parentNames = <<>> THEN <<>> ELSE parentNames[1])
                         \o (IF name # <<>> /\ name[1] # "" THEN name ELSE <<>>)),
               colorize)

\* wrapAnsi(string, columns): a string that fits is left as it is
wrapAnsi(string, columns) ==
  IF StringLength(string) <= columns THEN string
  ELSE Run("wrapAnsi", ToString(columns)) \o string

\* config.inspect(object, options): the call
InspectCall(object, options) ==
  [on |-> "config", call |-> "inspect", args |-> <<object, options>>]

\* an object that holds itself (circular.self = circular): the keys whose
\* value is the object, and the value standing for the reference
SelfKeys == {"self"}
Self == "<ref *1>"

\* JSON.stringify(object) throws a TypeError on such an object
HasCircular(object) == (DOMAIN object) \cap SelfKeys # {}

\* defaultInspector(object): the string it gives, and what it throws
defaultInspector(object) ==
  IF HasCircular(object)
  THEN [string |-> Run("", "Could not inspect object"), thrown |-> ""]
  ELSE [string |-> Run("JSON.stringify", <<object>>), thrown |-> ""]

\* config.inspect(object, options): the default inspector, or the one of the
\* platform (util.inspect), which writes a reference as [Circular *1].  The
\* text an inspector gives is kept as what it was given
Inspect(config, object, options) ==
  IF config.inspect.val = "defaultInspector" THEN defaultInspector(object)
  ELSE [string |-> Run("inspect", <<object, options>>), thrown |-> ""]

Inspected(config, object, options) == Inspect(config, object, options).string

\* the first exception of a sequence of calls, "" when none threw
FirstThrown(thrown) ==
  IF \A i \in DOMAIN thrown : thrown[i] = "" THEN ""
  ELSE thrown[CHOOSE i \in DOMAIN thrown :
                /\ thrown[i] # ""
                /\ \A j \in 1..(i - 1) : thrown[j] = ""]

\* Math.min(config.getTerminalWidth(), MAX_WIDTH): the default function
\* gives Number.MAX_SAFE_INTEGER, the platform's the columns of the terminal
GetTerminalWidthCall == [on |-> "config", call |-> "getTerminalWidth", args |-> <<>>]

MinTerminalWidth(config) ==
  IF config.getTerminalWidth.val = "default" THEN MAX_WIDTH
  ELSE IF env.columns < MAX_WIDTH THEN env.columns ELSE MAX_WIDTH

\* the parts of params the transports take apart
ContextOfParams(params) ==
  IF "context" \in DOMAIN params THEN params.context ELSE EmptyObject

errorObject(params) ==
  IF "error" \in DOMAIN params THEN <<params.error>> ELSE <<>>

\* a variant that keeps a metadata object without keys
metadataObject_keepEmpty(params) ==
  IF "metadata" \in DOMAIN params THEN <<params.metadata>> ELSE <<>>

metadataObject(params) ==
  IF "metadata" \in DOMAIN params /\ DOMAIN params.metadata # {}
  THEN <<params.metadata>> ELSE <<>>

\* a variant that keeps the rest of the context when it has no key
restOfContextObject_keepEmpty(params) ==
  <<ObjectRest(ContextOfParams(params), {"name", "parentNames", "timestamp"})>>

restOfContextObject(params) ==
  LET restOfContext == ObjectRest(ContextOfParams(params),
                                  {"name", "parentNames", "timestamp"})
  IN  IF DOMAIN restOfContext = {} THEN <<>> ELSE <<restOfContext>>

Optional(object, key) == IF key \in DOMAIN object THEN <<object[key]>> ELSE <<>>

\* PrettyBasicTransport.style(value): the string, and the inspect calls made
style(config, value) ==
  LET colorize == config.colorize.val
      options == [colors |-> colorize, compact |-> TRUE, depth |-> "Infinity"]
  IN  CASE value.kind = "undefined" ->
             [string |-> Colored("gray", "undefined", colorize), effects |-> <<>>,
              thrown |-> ""]
        [] value.kind = "boolean" ->
             [string |-> Colored("cyan", ToString(value.val), colorize), effects |-> <<>>,
              thrown |-> ""]
        [] value.kind = "string" ->
             [string |-> Run("", value.val), effects |-> <<>>, thrown |-> ""]
        [] value.kind = "object" ->
             [string |-> Inspected(config, value.val, options),
              effects |-> <<InspectCall(value.val, options)>>,
              thrown |-> Inspect(config, value.val, options).thrown]

RECURSIVE styleMessages(_, _)
styleMessages(config, messages) ==
  IF Len(messages) = 0 THEN [string |-> <<>>, effects |-> <<>>, thrown |-> ""]
  ELSE LET first == style(config, Head(messages))
           rest == styleMessages(config, Tail(messages))
       IN  [string |-> IF Len(messages) = 1 THEN first.string
                       ELSE first.string \o Run("", " ") \o rest.string,
            effects |-> first.effects \o rest.effects,
            thrown |-> FirstThrown(<<first.thrown, rest.thrown>>)]

\* the switch on params.logLevel of the pretty transport
prettyConsoleMethod_fatalIsWarn(logLevel) ==
  CASE logLevel = "debug" -> "debug"
    [] logLevel = "error" -> "error"
    [] logLevel \in {"fatal", "warn"} -> "warn"
    [] logLevel = "info" -> "info"
    [] logLevel = "trace" -> "trace"

prettyConsoleMethod(logLevel) ==
  CASE logLevel = "debug" -> "debug"
    [] logLevel \in {"error", "fatal"} -> "error"
    [] logLevel = "info" -> "info"
    [] logLevel = "trace" -> "trace"
    [] logLevel = "warn" -> "warn"

\* the switch on params.logLevel of the JSON transport
jsonConsoleMethod(logLevel) ==
  CASE logLevel = "debug" -> "debug"
    [] logLevel \in {"error", "fatal"} -> "error"
    [] logLevel = "info" -> "info"
    [] logLevel = "trace" -> "trace"
    [] logLevel = "warn" -> "warn"

TargetCall(method, args) == [on |-> "target", call |-> method, args |-> args]

\* what a call of target.write(chunk) does: it returns, it returns a promise
\* that is still pending, or it throws
WriteOutcomes == {"returns", "pending", "throws"}

\* a shipToLogger call that ended by an exception
ShipThrew(effects, thrown) ==
  [effects |-> effects, returned |-> <<>>, thrown |-> thrown, write |-> "none"]

\* a variant that writes the newline in a call of its own
StreamWrite_newlineApart(effects, chunk, written, messages) ==
  [effects |-> effects \o <<TargetCall("write", <<SubSeq(chunk, 1, Len(chunk) - 1)>>),
                            TargetCall("write", <<Run("", "\n")>>)>>,
   returned |-> IF written = "throws" THEN <<>> ELSE messages,
   thrown |-> IF written = "throws" THEN "write" ELSE "",
   write |-> CASE written = "throws" -> "threw"
               [] written = "pending" -> "pending"
               [] written = "returns" -> "returned"]

\* void this.typedTarget.target.write(chunk); ... return params.messages
StreamWrite(effects, chunk, written, messages) ==
  [effects |-> effects \o <<TargetCall("write", <<chunk>>)>>,
   returned |-> IF written = "throws" THEN <<>> ELSE messages,
   thrown |-> IF written = "throws" THEN "write" ELSE "",
   write |-> CASE written = "throws" -> "threw"
               [] written = "pending" -> "pending"
               [] written = "returns" -> "returned"]

\* a variant that does not ask for another part
isObjectOnlyWithPrefix_noPart(messages, prefixAndMessages, present) ==
  /\ StringLength(messages) = 0
  /\ StringLength(prefixAndMessages) > 0

\* messages empty, prefix not empty, and an error, metadata or context there
isObjectOnlyWithPrefix(messages, prefixAndMessages, present) ==
  /\ StringLength(messages) = 0
  /\ StringLength(prefixAndMessages) > 0
  /\ present # <<>>

\* PrettyBasicTransport.shipToLogger past the test of config.enabled
PrettyShipEnabled(t, params, written) ==
  LET config == t.config
      colorize == config.colorize.val
      context == ContextOfParams(params)
      name == Optional(context, "name")
      parentNames == Optional(context, "parentNames")
      timestamp == Optional(context, "timestamp")
      localTimeString ==
        IF config.showTime.val
        THEN formatTime(IF timestamp = <<>> THEN Now ELSE timestamp[1], colorize)
        ELSE <<>>
      logLevelString ==
        IF config.showLevel.val THEN getLogLevelString(params.logLevel, colorize)
        ELSE <<>>
      namePrefix ==
        IF config.showName.val THEN getNamePrefix(name, parentNames, colorize)
        ELSE <<>>
      styled == styleMessages(config, params.messages)
      messages == styled.string
      maxWidth == MinTerminalWidth(config)
      prefixAndMessageParts ==
        FilterBoolean(<<localTimeString, logLevelString, namePrefix, messages>>)
      prefixAndMessages ==
        IF Len(prefixAndMessageParts) > 0
        THEN wrapAnsi(Join(prefixAndMessageParts, " "), maxWidth)
        ELSE <<>>
      present == errorObject(params) \o metadataObject(params)
                   \o restOfContextObject(params)
      options == [breakLength |-> maxWidth, colors |-> colorize, depth |-> "Infinity"]
      objectOnlyWithPrefix == isObjectOnlyWithPrefix(messages, prefixAndMessages, present)
      inspectedInOrder == metadataObject(params) \o restOfContextObject(params)
                            \o errorObject(params)
      inspectCalls ==
        [i \in DOMAIN inspectedInOrder |-> InspectCall(inspectedInOrder[i], options)]
      inspectThrown ==
        FirstThrown([i \in DOMAIN inspectedInOrder |->
                       Inspect(config, inspectedInOrder[i], options).thrown])
      completeMessage ==
        Join(FilterBoolean(
               << IF objectOnlyWithPrefix
                  THEN Join(<<prefixAndMessages, Run("", "\\u21B4")>>, " ")
                  ELSE prefixAndMessages >>
               \o [i \in DOMAIN present |-> Inspected(config, present[i], options)]),
             "\n")
  IN  IF styled.thrown # "" THEN ShipThrew(styled.effects, styled.thrown)
      ELSE IF t.typedTarget.type \in {"Console", "ConsoleLike"}
      THEN [effects |->
              styled.effects \o <<GetTerminalWidthCall>> \o
              << TargetCall(prettyConsoleMethod(params.logLevel),
                            (IF StringLength(prefixAndMessages) > 0
                             THEN <<prefixAndMessages>> ELSE <<>>) \o present) >>,
            returned |-> params.messages, thrown |-> "", write |-> "none"]
      ELSE IF inspectThrown # ""
      THEN ShipThrew(styled.effects \o <<GetTerminalWidthCall>> \o inspectCalls,
                     inspectThrown)
      ELSE StreamWrite(styled.effects \o <<GetTerminalWidthCall>> \o inspectCalls,
                       completeMessage \o Run("", "\n"), written, params.messages)

\* a shipToLogger call of a disabled transport
ShipDisabled(params) ==
  [effects |-> <<>>, returned |-> params.messages, thrown |-> "", write |-> "none"]

\* a variant without the test of config.enabled
PrettyShipToLogger_alwaysEnabled(t, params, written) ==
  PrettyShipEnabled(t, params, written)

\* PrettyBasicTransport.shipToLogger
PrettyShipToLogger(t, params, written) ==
  IF ~t.config.enabled.val THEN ShipDisabled(params)
  ELSE PrettyShipEnabled(t, params, written)

\* a variant that writes the keys in the order of the documented record shape
JsonKeyOrder_asDocumented ==
  <<"name", "parentNames", "timestamp", "level", "messages", "metadata",
    "error", "context">>

\* the keys of a JSON object as safe-stable-stringify writes them: sorted
JsonKeyOrder ==
  <<"context", "error", "level", "messages", "metadata", "name",
    "parentNames", "timestamp">>

\* serializeError(error): a plain object of the error's properties
serializeError(error) == [k \in DOMAIN error |-> error[k]]

\* an object as safe-stable-stringify writes it: a reference to an object
\* that is being written becomes "[Circular]"; `referred` is the object the
\* references of `object` lead to, written in full where it is met first
Stringified(object, referred) ==
  [k \in DOMAIN object |->
     IF k \notin SelfKeys THEN object[k]
     ELSE IF referred = object THEN "[Circular]"
     ELSE [j \in DOMAIN referred |->
             IF j \in SelfKeys THEN "[Circular]" ELSE referred[j]]]

\* a variant that stringifies as JSON.stringify does
safeStableStringify_throwing(logEntry, referred) ==
  IF \E key \in {"context", "error", "metadata"} :
       logEntry[key] # <<>> /\ HasCircular(logEntry[key][1])
  THEN [json |-> <<>>, thrown |-> "TypeError: Converting circular structure to JSON"]
  ELSE LET written == SelectSeq(JsonKeyOrder, LAMBDA key : logEntry[key] # <<>>)
       IN  [json |-> [i \in DOMAIN written |-> <<written[i], logEntry[written[i]][1]>>],
            thrown |-> ""]

\* safeStableStringify(logEntry, replacer): the JSON text, as the sequence of
\* its <<key, value>> pairs; a key whose value is undefined is not written
safeStableStringify(logEntry, referred) ==
  LET written == SelectSeq(JsonKeyOrder, LAMBDA key : logEntry[key] # <<>>)
  IN  [json |->
         [i \in DOMAIN written |->
            <<written[i],
              IF written[i] \in {"context", "error", "metadata"}
              THEN Stringified(logEntry[written[i]][1], referred[written[i]])
              ELSE logEntry[written[i]][1]>>],
       thrown |-> ""]

\* paramsToJsonString(params): an entry of logEntry is <<>> for undefined
paramsToJsonString(params) ==
  LET context == ContextOfParams(params)
      logEntry ==
        [context |-> restOfContextObject(params),
         error |-> IF errorObject(params) = <<>> THEN <<>>
                   ELSE <<serializeError(params.error)>>,
         level |-> <<params.logLevel>>,
         messages |-> <<params.messages>>,
         metadata |-> metadataObject(params),
         name |-> Optional(context, "name"),
         parentNames |-> Optional(context, "parentNames"),
         timestamp |-> IF "timestamp" \in DOMAIN context
                       THEN <<context.timestamp>> ELSE <<Now>>]
      referred ==
        [context |-> context,
         error |-> IF errorObject(params) = <<>> THEN EmptyObject
                   ELSE serializeError(params.error),
         metadata |-> IF metadataObject(params) = <<>> THEN EmptyObject
                      ELSE params.metadata]
  IN  safeStableStringify(logEntry, referred)

\* JSON.parse(jsonString)
JsonParse(jsonString) ==
  [key \in { jsonString.json[i][1] : i \in DOMAIN jsonString.json } |->
     (CHOOSE pair \in { jsonString.json[i] : i \in DOMAIN jsonString.json } :
        pair[1] = key)[2]]

\* a variant that hands the raw string on unless pretty is set
JsonInspecting_prettyOnly(config) == config.pretty.val

\* this.config.pretty || this.config.colorize
JsonInspecting(config) == config.pretty.val \/ config.colorize.val

\* JsonBasicTransport.shipToLogger
JsonShipToLogger(t, params, written) ==
  IF ~t.config.enabled.val THEN ShipDisabled(params)
  ELSE
  LET config == t.config
      jsonString == paramsToJsonString(params)
      inspecting == JsonInspecting(config)
      options == [breakLength |-> IF config.pretty.val
                                  THEN ToString(MinTerminalWidth(config))
                                  ELSE "Number.MAX_SAFE_INTEGER",
                  colors |-> config.colorize.val,
                  compact |-> ~config.pretty.val,
                  depth |-> "Infinity"]
      inspected == Inspect(config, JsonParse(jsonString), options)
      logString == IF inspecting THEN inspected.string ELSE jsonString
      effects ==
        (IF inspecting /\ config.pretty.val THEN <<GetTerminalWidthCall>> ELSE <<>>)
        \o (IF inspecting THEN <<InspectCall(JsonParse(jsonString), options)>> ELSE <<>>)
  IN  IF jsonString.thrown # "" THEN ShipThrew(<<>>, jsonString.thrown)
      ELSE IF inspecting /\ inspected.thrown # ""
      THEN ShipThrew(effects, inspected.thrown)
      ELSE IF t.typedTarget.type \in {"Console", "ConsoleLike"}
      THEN [effects |->
              effects \o <<TargetCall(jsonConsoleMethod(params.logLevel), <<logString>>)>>,
            returned |-> params.messages, thrown |-> "", write |-> "none"]
      ELSE StreamWrite(effects, <<logString, "\n">>, written, params.messages)

\* pickLogTarget()
pickLogTarget ==
  IF processDefined
  THEN CHOOSE i \in StdStreams : i.identity = "process.stderr"
  ELSE CHOOSE i \in AmbientConsoles : i.constructorName = "Object"

Logger(i) == [kind |-> "instance", val |-> i]
Fn(name) == [kind |-> "function", val |-> name]

\* isEnvDefined(value): process.env[value] !== undefined, false without a
\* process; a variable of the environment is Undefined or a string
isEnvDefined(value) == IF processDefined THEN env[value] # Undefined ELSE FALSE

isNoColorSet == isEnvDefined("NO_COLOR")
isForceColorSet == isEnvDefined("FORCE_COLOR")

PRETTY_BASIC_TRANSPORT_CONFIG_DEFAULTS ==
  [colorize |-> Bool(TRUE), consoleDebug |-> Bool(FALSE), enabled |-> Bool(TRUE),
   getTerminalWidth |-> Fn("default"), id |-> Str("pretty-basic-transport"),
   inspect |-> Fn("defaultInspector"), level |-> Str("trace"),
   logger |-> Logger(pickLogTarget),
   showLevel |-> Bool(TRUE), showName |-> Bool(TRUE), showTime |-> Bool(TRUE)]

JSON_BASIC_TRANSPORT_CONFIG_DEFAULTS ==
  [colorize |-> Bool(FALSE), consoleDebug |-> Bool(FALSE), enabled |-> Bool(TRUE),
   getTerminalWidth |-> Fn("default"), id |-> Str("json-basic-transport"),
   inspect |-> Fn("defaultInspector"), level |-> Str("trace"),
   logger |-> Logger(pickLogTarget), pretty |-> Bool(FALSE)]

\* a variant in which NO_COLOR is looked at after FORCE_COLOR
BasicTransport_noColorLast(kind, config, defaults) ==
  LET merged == defu(config, defaults)
      forceColor == IF isForceColorSet
                    THEN [merged EXCEPT !.colorize = Bool(TRUE)]
                    ELSE merged
      resolvedConfig == IF isNoColorSet
                        THEN [forceColor EXCEPT !.colorize = Bool(FALSE)]
                        ELSE forceColor
      typedTarget == createLogBasicTypedTarget(resolvedConfig.logger.val)
  IN  [kind |-> kind, configured |-> config, config |-> resolvedConfig,
       typedTarget |-> typedTarget, thrown |-> typedTarget.thrown]

\* the constructor of both transports, from the defaults of one of them;
\* `configured` keeps the argument the constructor was called with
BasicTransport(kind, config, defaults) ==
  LET merged == defu(config, defaults)
      noColor == IF isNoColorSet THEN [merged EXCEPT !.colorize = Bool(FALSE)]
                 ELSE merged
      resolvedConfig == IF isForceColorSet
                        THEN [noColor EXCEPT !.colorize = Bool(TRUE)]
                        ELSE noColor
      typedTarget == createLogBasicTypedTarget(resolvedConfig.logger.val)
  IN  [kind |-> kind, configured |-> config, config |-> resolvedConfig,
       typedTarget |-> typedTarget, thrown |-> typedTarget.thrown]

PrettyBasicTransport(config) ==
  BasicTransport("pretty", config, PRETTY_BASIC_TRANSPORT_CONFIG_DEFAULTS)

JsonBasicTransport(config) ==
  BasicTransport("json", config, JSON_BASIC_TRANSPORT_CONFIG_DEFAULTS)

\* the targets a config names
ShipLoggers ==
  StdStreams
  \cup { i \in AmbientConsoles : i.constructorName = "Object" }
  \cup { i \in OtherInstances :
           /\ i.typeof = "object" /\ ~i.isNull /\ i.constructorName = "Object"
           /\ i.callable \in {ConsoleMethods, {"write"}, {}} }

\* the targets the configs other than the default one are tried on
ShipObjects ==
  { i \in ShipLoggers : i \in OtherInstances /\ i.callable # {} }

PrettyConfigs ==
  { ObjectSpread(config, [logger |-> Logger(i)]) :
      config \in { [enabled |-> Bool(FALSE)],
                   [colorize |-> Bool(FALSE), showTime |-> Bool(FALSE)],
                   [showLevel |-> Bool(FALSE), showName |-> Bool(FALSE),
                    showTime |-> Bool(FALSE)],
                   [getTerminalWidth |-> Fn("platform"), inspect |-> Fn("platform")] },
      i \in ShipObjects }
  \cup { [logger |-> Logger(i)] : i \in ShipLoggers }
  \cup {EmptyObject}

JsonConfigs ==
  { ObjectSpread(config, [logger |-> Logger(i)]) :
      config \in { [enabled |-> Bool(FALSE)],
                   [pretty |-> Bool(TRUE)],
                   [pretty |-> Bool(TRUE), getTerminalWidth |-> Fn("platform"),
                    inspect |-> Fn("platform")],
                   [colorize |-> Bool(TRUE)] },
      i \in ShipObjects }
  \cup { [logger |-> Logger(i)] : i \in ShipLoggers }
  \cup {EmptyObject}

ShipMessages == { <<>>, <<Str("hello"), Obj([a |-> "1"])>> }

\* const circular = { name: 'circular' }; circular.self = circular
Circular == [name |-> "circular", self |-> Self]

\* the records handed to shipToLogger: every level, every combination of
\* messages, context, metadata and error being there, an empty metadata
\* object, a context of a name only, and objects that hold themselves
ShipParams ==
  { ObjectSpread([logLevel |-> LogLevels[i],
                  messages |-> <<Str("hello"), Obj([a |-> "1"])>>,
                  context |-> [name |-> "svc", parentNames |-> <<"app">>,
                               timestamp |-> Earlier, k |-> "v"]],
                 [metadata |-> [m |-> "1"],
                  error |-> [name |-> "Error", message |-> "boom"]]) :
      i \in DOMAIN LogLevels }
  \cup
  { ObjectSpread(ObjectSpread(ObjectSpread([logLevel |-> "info", messages |-> messages],
                                           context), metadata), error) :
      messages \in ShipMessages,
      context \in { EmptyObject,
                    [context |-> [name |-> "svc", parentNames |-> <<"app">>,
                                  timestamp |-> Earlier, k |-> "v"]] },
      metadata \in { EmptyObject, [metadata |-> [m |-> "1"]] },
      error \in { EmptyObject, [error |-> [name |-> "Error", message |-> "boom"]] } }
  \cup
  { ObjectSpread([logLevel |-> "info", messages |-> <<Str("hello")>>], data) :
      data \in { [context |-> [name |-> "svc"], metadata |-> EmptyObject],
                 [context |-> Circular],
                 [metadata |-> Circular],
                 [error |-> ObjectSpread([message |-> "boom"], Circular)] } }

\* what a variable of process.env can be: not set, or a string
EnvValues == {Undefined, "", "1"}

ShipConstructPretty(config) ==
  /\ transport = <<>>
  /\ transport' = PrettyBasicTransport(config)
  /\ UNCHANGED <<lastShip, lastLogger, ipc>>
  /\ UNCHANGED <<mgrVars, logVars, targetVars, fileVars, singletonVars>>

ShipConstructJson(config) ==
  /\ transport = <<>>
  /\ transport' = JsonBasicTransport(config)
  /\ UNCHANGED <<lastShip, lastLogger, ipc>>
  /\ UNCHANGED <<mgrVars, logVars, targetVars, fileVars, singletonVars>>

\* transport.shipToLogger(params), `written` being what target.write does
\* when the call reaches it
ShipPretty(params, written) ==
  /\ transport # <<>> /\ transport.thrown = "" /\ transport.kind = "pretty"
  /\ LET done == PrettyShipToLogger(transport, params, written)
     IN  lastShip' = <<[params |-> params, effects |-> done.effects,
                        returned |-> done.returned, thrown |-> done.thrown,
                        write |-> done.write]>>
  /\ UNCHANGED <<transport, lastLogger, ipc>>
  /\ UNCHANGED <<mgrVars, logVars, targetVars, fileVars, singletonVars>>

ShipJson(params, written) ==
  /\ transport # <<>> /\ transport.thrown = "" /\ transport.kind = "json"
  /\ LET done == JsonShipToLogger(transport, params, written)
     IN  lastShip' = <<[params |-> params, effects |-> done.effects,
                        returned |-> done.returned, thrown |-> done.thrown,
                        write |-> done.write]>>
  /\ UNCHANGED <<transport, lastLogger, ipc>>
  /\ UNCHANGED <<mgrVars, logVars, targetVars, fileVars, singletonVars>>

\* the promise a write returned is rejected, after shipToLogger has returned
ShipWriteRejects ==
  /\ lastShip # <<>> /\ lastShip[1].write = "pending"
  /\ lastShip' = <<[lastShip[1] EXCEPT !.write = "rejected"]>>
  /\ UNCHANGED <<transport, lastLogger, ipc>>
  /\ UNCHANGED <<mgrVars, logVars, targetVars, fileVars, singletonVars>>

ShipInit ==
  /\ transport = <<>> /\ lastShip = <<>> /\ lastLogger = <<>> /\ ipc = NoIpc
  /\ env \in [name : {Undefined}, NO_COLOR : EnvValues, FORCE_COLOR : EnvValues,
              columns : {80}]
  /\ MgrIdle
  /\ loggers = <<>> /\ parentOf = <<>> /\ givenName = <<>> /\ shipped = <<>>
  /\ TargetIdle /\ FileIdle /\ SingletonIdle

\* records shipped to targets whose write returns
ShipNext ==
  \/ \E config \in PrettyConfigs : ShipConstructPretty(config)
  \/ \E config \in JsonConfigs : ShipConstructJson(config)
  \/ \E params \in ShipParams : ShipPretty(params, "returns")
  \/ \E params \in ShipParams : ShipJson(params, "returns")

SpecShip == ShipInit /\ [][ShipNext]_vars

\* records shipped to stream targets whose write may fail
WriteConfigs ==
  { [logger |-> Logger(i)] : i \in { i \in ShipLoggers : \/ i \in StdStreams
                                                         \/ i.callable = {"write"} } }

WriteNext ==
  \/ \E config \in WriteConfigs : ShipConstructPretty(config)
  \/ \E config \in WriteConfigs : ShipConstructJson(config)
  \/ \E params \in ShipParams, written \in WriteOutcomes : ShipPretty(params, written)
  \/ \E params \in ShipParams, written \in WriteOutcomes : ShipJson(params, written)
  \/ ShipWriteRejects

\* neither NO_COLOR nor FORCE_COLOR is set
WriteInit == ShipInit /\ env.NO_COLOR = Undefined /\ env.FORCE_COLOR = Undefined

SpecWrite == WriteInit /\ [][WriteNext]_vars

TargetCalls(effects) == SelectSeq(effects, LAMBDA effect : effect.on = "target")

(***************************************************************************)
(* C9: on a Console or ConsoleLike target every shipToLogger call of an    *)
(* enabled pretty or JSON transport calls exactly one method of the        *)
(* target, chosen by the level: debug -> debug, info -> info, warn ->      *)
(* warn, error -> error, fatal -> error, trace -> trace; never write.      *)
(***************************************************************************)
C9_OneConsoleCallByLevel ==
  ( /\ lastShip # <<>>
    /\ transport.config.enabled.val
    /\ transport.typedTarget.type \in {"Console", "ConsoleLike"} ) =>
    LET calls == TargetCalls(lastShip[1].effects)
        expected == [debug |-> "debug", info |-> "info", warn |-> "warn",
                     error |-> "error", fatal |-> "error", trace |-> "trace"]
    IN  /\ Len(calls) = 1
        /\ calls[1].call = expected[lastShip[1].params.logLevel]
        /\ calls[1].call # "write"

\* a fatal record shipped by a pretty transport to a ConsoleLike object
C9_Witness ==
  /\ lastShip # <<>>
  /\ transport.kind = "pretty" /\ transport.config.enabled.val
  /\ transport.typedTarget.type = "ConsoleLike"
  /\ lastShip[1].params.logLevel = "fatal"
  /\ TargetCalls(lastShip[1].effects)[1].call = "error"

(***************************************************************************)
(* C10: with enabled false shipToLogger of either basic transport does     *)
(* nothing (no call on the target, no inspect, no getTerminalWidth) and    *)
(* returns params.messages; with enabled true it returns params.messages   *)
(* as well, on every kind of target and at every level.                    *)
(***************************************************************************)
C10_DisabledDoesNothing ==
  lastShip # <<>> =>
    /\ lastShip[1].returned = lastShip[1].params.messages
    /\ ~transport.config.enabled.val => lastShip[1].effects = <<>>

\* a disabled pretty transport was handed a record with an object message
C10_Witness ==
  /\ lastShip # <<>>
  /\ transport.kind = "pretty" /\ ~transport.config.enabled.val
  /\ Len(lastShip[1].params.messages) = 2
  /\ "metadata" \in DOMAIN lastShip[1].params
  /\ lastShip[1].effects = <<>>
  /\ lastShip[1].returned = lastShip[1].params.messages

(***************************************************************************)
(* C11: the colorize a pretty or JSON transport works with is fixed by its *)
(* constructor: true when FORCE_COLOR is set in the environment, else      *)
(* false when NO_COLOR is set, else the configured value (true by default  *)
(* for pretty, false for JSON).  Set means any string, the empty one       *)
(* included; FORCE_COLOR wins over NO_COLOR.  The inspect calls of a later *)
(* shipToLogger are made with this value as `colors`.                      *)
(***************************************************************************)
C11_EffectiveColorize ==
  (transport # <<>> /\ transport.thrown = "") =>
    LET configured ==
          IF "colorize" \in DOMAIN transport.configured
          THEN transport.configured.colorize.val
          ELSE transport.kind = "pretty"
        expected ==
          IF env.FORCE_COLOR \in {"", "1"} THEN TRUE
          ELSE IF env.NO_COLOR \in {"", "1"} THEN FALSE
          ELSE configured
    IN  /\ transport.config.colorize.val = expected
        /\ lastShip # <<>> =>
             \A i \in DOMAIN lastShip[1].effects :
               lastShip[1].effects[i].call = "inspect" =>
                 lastShip[1].effects[i].args[2].colors = expected

\* both variables are set to the empty string and colorize: false was
\* configured: the pretty transport colors the object it inspects
C11_Witness ==
  /\ transport # <<>> /\ transport.thrown = "" /\ transport.kind = "pretty"
  /\ env.FORCE_COLOR = "" /\ env.NO_COLOR = ""
  /\ "colorize" \in DOMAIN transport.configured
  /\ ~transport.configured.colorize.val
  /\ transport.config.colorize.val
  /\ lastShip # <<>>
  /\ \E i \in DOMAIN lastShip[1].effects :
       /\ lastShip[1].effects[i].call = "inspect"
       /\ lastShip[1].effects[i].args[2].colors

\* an enabled JSON transport has shipped a record
JsonShipped ==
  /\ lastShip # <<>> /\ transport.kind = "json" /\ transport.config.enabled.val
  /\ lastShip[1].thrown = ""

\* what the last call handed to the target: the argument of the console
\* method, or the chunk written without its final newline
Emitted ==
  LET call == TargetCalls(lastShip[1].effects)[1]
  IN  IF call.call = "write" THEN call.args[1][1] ELSE call.args[1]

\* the transport hands on the string paramsToJsonString gave
RawJsonShipped ==
  JsonShipped /\ ~transport.config.pretty.val /\ ~transport.config.colorize.val

JsonKeys(text) == [i \in DOMAIN text.json |-> text.json[i][1]]

InOrderOf(keys, order) ==
  \A i, j \in DOMAIN keys :
    i < j => \E m, n \in DOMAIN order : m < n /\ order[m] = keys[i] /\ order[n] = keys[j]

(***************************************************************************)
(* C12 as stated: the JSON string of a record has its top-level keys in    *)
(* the documented order name, parentNames, timestamp, level, messages,     *)
(* metadata, error, context.                                               *)
(***************************************************************************)
C12_DocumentedKeyOrder ==
  RawJsonShipped =>
    InOrderOf(JsonKeys(Emitted),
              <<"name", "parentNames", "timestamp", "level", "messages",
                "metadata", "error", "context">>)

(***************************************************************************)
(* C12, amended: the JSON string of a record has its top-level keys in     *)
(* ascending order of the key strings: context, error, level, messages,    *)
(* metadata, name, parentNames, timestamp.                                 *)
(***************************************************************************)
C12_SortedKeyOrder ==
  RawJsonShipped =>
    InOrderOf(JsonKeys(Emitted),
              <<"context", "error", "level", "messages", "metadata", "name",
                "parentNames", "timestamp">>)

\* a record with all eight keys was written as raw JSON
C12_Witness ==
  /\ RawJsonShipped
  /\ Len(JsonKeys(Emitted)) = 8
  /\ JsonKeys(Emitted)[1] = "context" /\ JsonKeys(Emitted)[8] = "timestamp"

C14_RawOrInspected ==
  JsonShipped =>
    LET config == transport.config
        params == lastShip[1].params
        effects == lastShip[1].effects
        width == IF config.getTerminalWidth.val = "default" THEN 120
                 ELSE IF env.columns < 120 THEN env.columns ELSE 120
        calls == SelectSeq(effects, LAMBDA effect : effect.on = "config")
        inspects == SelectSeq(effects, LAMBDA effect : effect.call = "inspect")
    IN  IF ~config.pretty.val /\ ~config.colorize.val
        THEN /\ calls = <<>>
             /\ JsonParse(Emitted).level = params.logLevel
             /\ JsonParse(Emitted).messages = params.messages
        ELSE /\ Len(inspects) = 1
             /\ inspects[1].args[1].level = params.logLevel
             /\ inspects[1].args[1].messages = params.messages
             /\ inspects[1].args[2] =
                  [breakLength |-> IF config.pretty.val THEN ToString(width)
                                   ELSE "Number.MAX_SAFE_INTEGER",
                   colors |-> config.colorize.val,
                   compact |-> ~config.pretty.val,
                   depth |-> "Infinity"]
             /\ Len(calls) = IF config.pretty.val THEN 2 ELSE 1
             /\ Emitted = Inspect(config, inspects[1].args[1], inspects[1].args[2]).string

\* colorize alone (FORCE_COLOR set, pretty false) sends the record through
\* inspect, compact and with an unlimited breakLength
C14_Witness ==
  /\ JsonShipped
  /\ ~transport.config.pretty.val /\ transport.config.colorize.val
  /\ "colorize" \notin DOMAIN transport.configured
  /\ \E i \in DOMAIN lastShip[1].effects :
       /\ lastShip[1].effects[i].call = "inspect"
       /\ lastShip[1].effects[i].args[2].compact
       /\ lastShip[1].effects[i].args[2].breakLength = "Number.MAX_SAFE_INTEGER"

\* the parts of the last record that hold themselves
CircularParts ==
  { part \in {"context", "metadata", "error"} \cap DOMAIN lastShip[1].params :
      "self" \in DOMAIN lastShip[1].params[part] }

Adapters == {"node", "browser", "electron-main", "electron-renderer"}

\* platformAdapter.createFileTransport !== undefined
hasCreateFileTransport == env.adapter \in {"node", "electron-main"}

\* platformAdapter.createElectronTransport, createElectronListener
hasCreateElectronTransport == env.adapter = "electron-renderer"
hasCreateElectronListener == env.adapter = "electron-main"

\* getName() of the adapter, a string of characters: no package name is
\* found on node, the browser has none
AdapterName(adapter) ==
  CASE adapter = "electron-main" -> <<"M", "a", "i", "n">>
    [] adapter = "electron-renderer" -> <<"R", "e", "n", "d", "e", "r", "e", "r">>
    [] OTHER -> Undefined

isDebugSet == isEnvDefined("DEBUG")

\* if (value): false, '', undefined and null are falsy, objects are truthy
Truthy(value) ==
  IF value.kind = "boolean" THEN value.val
  ELSE IF value.kind = "string" THEN value.val # <<>>
  ELSE value.kind \notin {"undefined", "null"}

isILogBasic(value) ==
  /\ value.kind = "instance"
  /\ \/ isStreamStdout(value.val)
     \/ isStreamStderr(value.val)
     \/ isConsole(value.val)
     \/ isConsoleLike(value.val)
     \/ isStreamLike(value.val)

\* the config createLogger passes to a basic transport for the value of
\* logToConsole or logJsonToConsole; a value that is neither a target nor a
\* boolean is taken as the config, and one that is no plain config object
\* has none of the keys a transport reads
ConsoleTransportConfig(option) ==
  defu(IF isILogBasic(option) THEN [logger |-> option]
       ELSE IF option.kind = "boolean" THEN [logger |-> Logger(pickLogTarget)]
       ELSE IF isPlainObject(option) THEN option.val
       ELSE EmptyObject,
       [getTerminalWidth |-> Fn("platform"), inspect |-> Fn("platform")])

\* a variant that asks for a truthy value only
wantsFileTransport_truthyOnly(logJsonToFile) == Truthy(logJsonToFile)

\* typeof resolvedOptions.logJsonToFile === 'string' || resolvedOptions.logJsonToFile
wantsFileTransport(logJsonToFile) ==
  logJsonToFile.kind = "string" \/ Truthy(logJsonToFile)

FileLoggingUnsupported == "File logging is only supported in Node.js environments."

\* createLogger(optionsOrName) with the Map of file transports as it is:
\* the logger returned (its transports, context and level) or the error
\* thrown, and the Map as the call leaves it
createLogger(byPath, heap, optionsOrName) ==
  LET optionsObject == IF optionsOrName.kind = "string" THEN [name |-> optionsOrName]
                       ELSE IF optionsOrName.kind = "undefined" THEN EmptyObject
                       ELSE optionsOrName.val
      merged == defu(optionsObject, DEFAULT_LOG_OPTIONS)
      resolvedOptions == IF isDebugSet THEN [merged EXCEPT !.verbose = Bool(TRUE)]
                         ELSE merged
      pretty == IF Truthy(resolvedOptions.logToConsole)
                THEN <<PrettyBasicTransport(
                         ConsoleTransportConfig(resolvedOptions.logToConsole))>>
                ELSE <<>>
      json == IF Truthy(resolvedOptions.logJsonToConsole)
              THEN <<JsonBasicTransport(
                       ConsoleTransportConfig(resolvedOptions.logJsonToConsole))>>
              ELSE <<>>
      wanted == wantsFileTransport(resolvedOptions.logJsonToFile)
      made == createFileTransport(byPath, heap, resolvedOptions.name,
                                  IF resolvedOptions.logJsonToFile.kind = "boolean"
                                  THEN Undef ELSE resolvedOptions.logJsonToFile)
      thrown == IF pretty # <<>> /\ pretty[1].thrown # "" THEN pretty[1].thrown
                ELSE IF json # <<>> /\ json[1].thrown # "" THEN json[1].thrown
                ELSE IF ~wanted THEN ""
                ELSE IF ~hasCreateFileTransport THEN FileLoggingUnsupported
                ELSE made.thrown
      called == wanted /\ hasCreateFileTransport /\ thrown \in {"", made.thrown}
      file == IF wanted THEN <<[kind |-> "file", transport |-> made.returned]>>
              ELSE <<>>
      electron == IF hasCreateElectronTransport THEN <<[kind |-> "electron"]>>
                  ELSE <<>>
      logLayer == [transports |-> pretty \o json \o file \o electron,
                   context |-> IF resolvedOptions.name.kind = "undefined"
                               THEN EmptyObject
                               ELSE [name |-> resolvedOptions.name.val],
                   level |-> IF resolvedOptions.verbose.val THEN "trace" ELSE "info"]
  IN  [thrown |-> thrown,
       returned |-> IF thrown = "" THEN <<logLayer>> ELSE <<>>,
       listening |-> thrown = "" /\ hasCreateElectronListener,
       fileTransportsByPath |-> IF called THEN made.fileTransportsByPath ELSE byPath,
       transports |-> IF called THEN made.transports ELSE heap]

\* the targets an option names: the ones that exist on the platform
CreateTargets == { i \in ShipLoggers : processDefined \/ i \notin StdStreams }

ConsoleOptions ==
  { Bool(FALSE), Bool(TRUE), Obj([showTime |-> Bool(FALSE)]) }
  \cup { Logger(i) : i \in CreateTargets }
  \cup { Obj([logger |-> Logger(i)]) : i \in CreateTargets }

FileOptions ==
  { Bool(FALSE), Bool(TRUE), Str(<<>>), Str(<<"~", "/", "l">>),
    Obj([frequency |-> Str("hourly")]),
    Obj([levelMap |-> Obj([info |-> "INFO"])]) }

\* the arguments of createLogger
CreateOptions ==
  { Undef, Str(<<"a", "/", "b">>), Obj([verbose |-> Bool(TRUE)]) }
  \cup { Obj([logToConsole |-> option]) : option \in ConsoleOptions }
  \cup { Obj([logToConsole |-> Bool(FALSE), logJsonToConsole |-> option]) :
           option \in ConsoleOptions }
  \cup { Obj(ObjectSpread(options, [logJsonToFile |-> option])) :
           options \in { EmptyObject, [logToConsole |-> Bool(FALSE)] },
           option \in FileOptions }
  \cup { Obj([name |-> Str(<<"a", "/", "b">>), logJsonToFile |-> Bool(TRUE)]) }

\* a variant in which the new listener takes the place of the others
createElectronListener_replaces(electron, logger) ==
  [electron EXCEPT !.listeners = <<logger>>]

\* createElectronListener(logger): ipcMain.on('kitschpatrol-log', ...), one
\* more listener of the channel, which hands what it receives to the logger
createElectronListener(electron, logger) ==
  [electron EXCEPT !.listeners = Append(@, logger)]

MaxListeners == 2

\* what a call leaves behind: the Map of file transports, the listeners of
\* the channel, and the call with what it returned or threw
LoggerMade(made, options, injected) ==
  /\ Len(made.transports) <= MaxFileTransports
  /\ made.listening => Len(ipc.listeners) < MaxListeners
  /\ ipc' = IF made.listening
            THEN createElectronListener(ipc, made.returned[1])
            ELSE ipc
  /\ fileTransportsByPath' = made.fileTransportsByPath
  /\ transports' = made.transports
  /\ lastLogger' = <<[options |-> options, injected |-> injected,
                      thrown |-> made.thrown, returned |-> made.returned,
                      logged |-> <<>>]>>
  /\ UNCHANGED <<lastCreate, transport, lastShip>>
  /\ UNCHANGED <<mgrVars, logVars, targetVars, singletonVars>>

CreateLogger(optionsOrName) ==
  LoggerMade(createLogger(fileTransportsByPath, transports, optionsOrName),
             optionsOrName, <<>>)

\* the platform createLogger runs on: one of the adapters given, DEBUG
\* being one of the values given
CreateEnv(adapters, debugs) ==
  /\ \E adapter \in adapters, debug \in debugs :
       env = [name |-> AdapterName(adapter), platform |-> "linux",
              adapter |-> adapter, NO_COLOR |-> Undefined,
              FORCE_COLOR |-> Undefined, DEBUG |-> debug, columns |-> 80]
  /\ processDefined = (env.adapter \in {"node", "electron-main"})
  /\ instance = <<>> /\ typed = <<>>
  /\ MgrIdle
  /\ loggers = <<>> /\ parentOf = <<>> /\ givenName = <<>> /\ shipped = <<>>
  /\ FileIdle /\ SingletonIdle /\ ShipIdle

CreateInit == CreateEnv(Adapters \ {"electron-main"}, {Undefined})

CreateNext == \E optionsOrName \in CreateOptions : CreateLogger(optionsOrName)

SpecCreate == CreateInit /\ [][CreateNext]_vars

(***************************************************************************)
(* C16: when the write of a stream target fails, by throwing or by         *)
(* returning a promise that is rejected later, shipToLogger of either      *)
(* basic transport has returned params.messages without waiting for the    *)
(* write, and no exception leaves it.                                      *)
(***************************************************************************)
C16_WriteFailureNotSurfaced ==
  (lastShip # <<>> /\ lastShip[1].write \in {"threw", "pending", "rejected"}) =>
    /\ lastShip[1].thrown = ""
    /\ lastShip[1].returned = lastShip[1].params.messages

\* the value of an option as createLogger was given it
GivenOption(key) ==
  LET optionsOrName == lastLogger[1].options
  IN  IF optionsOrName.kind = "object" /\ key \in DOMAIN optionsOrName.val
      THEN optionsOrName.val[key]
      ELSE Undef

(***************************************************************************)
(* C17: on a platform adapter without createFileTransport, createLogger    *)
(* called with logJsonToFile true, a string or a config object throws and  *)
(* returns no logger, and it is the error of unsupported file logging      *)
(* unless a console transport was refused before; with logJsonToFile false *)
(* or absent that error is never thrown, on any adapter.                   *)
(***************************************************************************)
C17_FileLoggingNeedsAdapter ==
  lastLogger # <<>> =>
    LET logJsonToFile == GivenOption("logJsonToFile")
        call == lastLogger[1]
    IN  IF \/ logJsonToFile.kind \in {"string", "object"}
           \/ logJsonToFile.kind = "boolean" /\ logJsonToFile.val
        THEN ~hasCreateFileTransport =>
               /\ call.returned = <<>>
               /\ call.thrown \in {FileLoggingUnsupported,
                                   "Unable to identify ILogBasic type"}
               /\ GivenOption("logToConsole").kind \in {"undefined", "boolean"} =>
                    call.thrown = FileLoggingUnsupported
        ELSE call.thrown # FileLoggingUnsupported

\* the browser adapter, logJsonToFile: '' : the error of unsupported file logging
C17_Witness ==
  /\ lastLogger # <<>> /\ env.adapter = "browser"
  /\ GivenOption("logJsonToFile") = Str(<<>>)
  /\ lastLogger[1].thrown = FileLoggingUnsupported
  /\ lastLogger[1].returned = <<>>

\* an instance whose shape is none of Console, ConsoleLike, StreamLike,
\* process.stdout and process.stderr
NoSupportedKind(i) ==
  \/ i.typeof # "object" \/ i.isNull
  \/ /\ i.identity \notin {"process.stdout", "process.stderr", "globalThis.console"}
     /\ i.constructorName # "Console"
     /\ ~(ConsoleMethods \subseteq i.callable)
     /\ "write" \notin i.callable

\* the console targets the createLogger call named, as the option itself or
\* as the logger of a transport config
GivenTargets ==
  UNION { LET option == GivenOption(key)
          IN  IF option.kind = "instance" THEN {option.val}
              ELSE IF option.kind = "object" /\ "logger" \in DOMAIN option.val
              THEN {option.val.logger.val}
              ELSE {} :
          key \in {"logToConsole", "logJsonToConsole"} }

(***************************************************************************)
(* C18: creating a logger through createLogger, and with it a transport,   *)
(* for a console target whose shape matches none of the supported kinds    *)
(* throws; no logger writing to another target is returned.                *)
(***************************************************************************)
C18_UnsupportedTargetRefused ==
  lastLogger # <<>> =>
    \A i \in GivenTargets :
      NoSupportedKind(i) => lastLogger[1].thrown # "" /\ lastLogger[1].returned = <<>>

\* an enabled pretty transport has shipped a record to a target of these types
PrettyShipped(types) ==
  /\ lastShip # <<>> /\ lastShip[1].thrown = ""
  /\ transport.kind = "pretty" /\ transport.config.enabled.val
  /\ transport.typedTarget.type \in types

\* the prefix and the messages of the record shipped last, joined by spaces
\* and wrapped; <<>> when nothing is shown and no message has text
ShippedLine ==
  LET config == transport.config
      params == lastShip[1].params
      colorize == config.colorize.val
      context == IF "context" \in DOMAIN params THEN params.context ELSE EmptyObject
      timestamp == Optional(context, "timestamp")
      parts ==
        FilterBoolean(
          << IF config.showTime.val
             THEN formatTime(IF timestamp = <<>> THEN Now ELSE timestamp[1], colorize)
             ELSE <<>>,
             IF config.showLevel.val
             THEN getLogLevelString(params.logLevel, colorize) ELSE <<>>,
             IF config.showName.val
             THEN getNamePrefix(Optional(context, "name"),
                                Optional(context, "parentNames"), colorize)
             ELSE <<>>,
             styleMessages(config, params.messages).string >>)
  IN  IF parts = <<>> THEN <<>>
      ELSE wrapAnsi(Join(parts, " "), MinTerminalWidth(config))

\* the error, the metadata and the rest of the context of the record shipped
\* last, each only when it is there
ShippedObjects ==
  LET params == lastShip[1].params
      context == IF "context" \in DOMAIN params THEN params.context ELSE EmptyObject
      rest == [k \in (DOMAIN context) \ {"name", "parentNames", "timestamp"} |->
                 context[k]]
  IN  (IF "error" \in DOMAIN params THEN <<params.error>> ELSE <<>>)
      \o (IF "metadata" \in DOMAIN params /\ DOMAIN params.metadata # {}
          THEN <<params.metadata>> ELSE <<>>)
      \o (IF DOMAIN rest # {} THEN <<rest>> ELSE <<>>)

(***************************************************************************)
(* C19 as stated: on a Console or ConsoleLike target the pretty transport  *)
(* calls the console method with the wrapped prefix and message line as    *)
(* first argument, followed by the error, the metadata and the rest of the *)
(* context, in that order, each the original object and each only when     *)
(* present.                                                                *)
(***************************************************************************)
C19_LineAlwaysFirst ==
  PrettyShipped({"Console", "ConsoleLike"}) =>
    LET args == TargetCalls(lastShip[1].effects)[1].args
    IN  /\ Len(args) = 1 + Len(ShippedObjects)
        /\ args[1] = ShippedLine
        /\ \A j \in DOMAIN ShippedObjects : args[1 + j] = ShippedObjects[j]

(***************************************************************************)
(* C19: on a Console or ConsoleLike target the arguments of the console    *)
(* call of the pretty transport are the wrapped prefix and message line,   *)
(* when it is not empty, then the error, the metadata and the rest of the  *)
(* context, in that order, each the original object and each only when     *)
(* present; there is no other argument.                                    *)
(***************************************************************************)
C19_ConsoleArguments ==
  PrettyShipped({"Console", "ConsoleLike"}) =>
    LET args == TargetCalls(lastShip[1].effects)[1].args
        first == IF ShippedLine = <<>> THEN 0 ELSE 1
    IN  /\ Len(args) = first + Len(ShippedObjects)
        /\ first = 1 => args[1] = ShippedLine
        /\ \A j \in DOMAIN ShippedObjects : args[first + j] = ShippedObjects[j]

\* a record with messages, error, metadata and context went to a ConsoleLike
\* object: four arguments, the objects as they were given
C19_Witness ==
  /\ PrettyShipped({"ConsoleLike"})
  /\ LET params == lastShip[1].params
         args == TargetCalls(lastShip[1].effects)[1].args
     IN  /\ Len(params.messages) = 2
         /\ {"error", "metadata", "context"} \subseteq DOMAIN params
         /\ Len(args) = 4
         /\ args[1] = ShippedLine
         /\ args[2] = params.error /\ args[3] = params.metadata
         /\ args[4] = [k |-> "v"]

(***************************************************************************)
(* C20: on a StreamLike, StreamStdout or StreamStderr target the pretty    *)
(* transport makes exactly one call on the target for a record, a write;   *)
(* the chunk is the present parts, in the order prefix line (with its      *)
(* marker when there is no message text), error block, metadata block,     *)
(* context block, joined by single newlines, and a newline after them.     *)
(***************************************************************************)
C20_OneStreamWrite ==
  PrettyShipped({"StreamLike", "StreamStdout", "StreamStderr"}) =>
    LET config == transport.config
        calls == TargetCalls(lastShip[1].effects)
        options == [breakLength |-> MinTerminalWidth(config),
                    colors |-> config.colorize.val, depth |-> "Infinity"]
        marked == /\ StringLength(styleMessages(config, lastShip[1].params.messages).string) = 0
                  /\ ShippedLine # <<>> /\ ShippedObjects # <<>>
        line == IF marked THEN ShippedLine \o Run("", " ") \o Run("", "\\u21B4")
                ELSE ShippedLine
        blocks == [j \in DOMAIN ShippedObjects |->
                     Inspected(config, ShippedObjects[j], options)]
        parts == (IF line = <<>> THEN <<>> ELSE <<line>>) \o blocks
    IN  /\ Len(calls) = 1
        /\ calls[1].call = "write"
        /\ Len(calls[1].args) = 1
        /\ calls[1].args[1] = Join(parts, "\n") \o Run("", "\n")

\* a record with messages, error, metadata and context went to process.stderr
\* in one chunk of four parts
C20_Witness ==
  /\ PrettyShipped({"StreamStderr"})
  /\ LET params == lastShip[1].params
         calls == TargetCalls(lastShip[1].effects)
         chunk == calls[1].args[1]
         newlines == { i \in DOMAIN chunk : chunk[i] = Run("", "\n")[1] }
     IN  /\ Len(params.messages) = 2
         /\ {"error", "metadata", "context"} \subseteq DOMAIN params
         /\ Len(calls) = 1 /\ calls[1].call = "write"
         /\ Cardinality(newlines) = 4
         /\ Len(chunk) \in newlines

\* the runs of the first line of the chunk written last: those before the
\* first newline
FirstLineWritten ==
  LET chunk == TargetCalls(lastShip[1].effects)[1].args[1]
      newlines == { i \in DOMAIN chunk : chunk[i] = Run("", "\n")[1] }
      first == CHOOSE i \in newlines : \A j \in newlines : i <= j
  IN  SubSeq(chunk, 1, first - 1)

\* the first line written ends with a space and the marker
MarkerWritten ==
  LET line == FirstLineWritten
  IN  /\ Len(line) >= 2
      /\ line[Len(line)] = Run("", "\\u21B4")[1]
      /\ line[Len(line) - 1] = Run("", " ")[1]

NoMessageText ==
  StringLength(styleMessages(transport.config, lastShip[1].params.messages).string) = 0

(***************************************************************************)
(* C21 as stated: on a stream target the first line the pretty transport   *)
(* writes ends with the marker exactly when the record has no message text *)
(* and an error, metadata or context block is present.                     *)
(***************************************************************************)
C21_MarkerIffNoMessage ==
  PrettyShipped({"StreamLike", "StreamStdout", "StreamStderr"}) =>
    (MarkerWritten <=> (NoMessageText /\ ShippedObjects # <<>>))

(***************************************************************************)
(* C21: on a stream target the first line the pretty transport writes ends *)
(* with the marker exactly when the record has no message text, the prefix *)
(* is not empty (time, level or name is shown) and an error, metadata or   *)
(* context block is present.                                               *)
(***************************************************************************)
C21_MarkerIffPrefixOnly ==
  PrettyShipped({"StreamLike", "StreamStdout", "StreamStderr"}) =>
    (MarkerWritten <=> (NoMessageText /\ ShippedLine # <<>> /\ ShippedObjects # <<>>))

\* a record without messages and with metadata went to a stream with the
\* level shown: the marker ends the first line
C21_Witness ==
  /\ PrettyShipped({"StreamLike"})
  /\ transport.config.showLevel.val
  /\ lastShip[1].params.messages = <<>>
  /\ "metadata" \in DOMAIN lastShip[1].params
  /\ MarkerWritten

(***************************************************************************)
(* Loggers of a hierarchy that log through a pretty transport: the record  *)
(* of a log call carries the logger's context, and the transport renders   *)
(* the name and the parentNames of it.                                     *)
(***************************************************************************)
\* a ConsoleLike object, and the line reduced to the name and the message
PrefixConfigs ==
  { [logger |-> Logger(i), colorize |-> Bool(FALSE), showTime |-> Bool(FALSE),
     showLevel |-> Bool(FALSE)] :
    i \in { i \in ShipObjects : i.callable = ConsoleMethods } }

\* logger.info('hello') of logger l, shipped to the pretty transport
LogShipPretty(l) ==
  /\ transport # <<>> /\ transport.thrown = ""
  /\ LET made == formatLog(managers, loggers[l].cm, "info", EmptyObject)
         params == ObjectSpread(made.record, [messages |-> <<Str("hello")>>])
         done == PrettyShipToLogger(transport, params, "returns")
     IN  /\ managers' = made.managers
         /\ shipped' = <<[logger |-> l, record |-> made.record]>>
         /\ lastShip' = <<[params |-> params, effects |-> done.effects,
                           returned |-> done.returned, thrown |-> done.thrown,
                           write |-> done.write]>>
  /\ UNCHANGED <<hist, clones, loggers, parentOf, givenName, env>>
  /\ UNCHANGED <<transport, lastLogger, ipc>>
  /\ UNCHANGED <<targetVars, fileVars, singletonVars>>

PrefixInit ==
  /\ managers = <<>> /\ hist = <<>> /\ clones = {}
  /\ loggers = <<>> /\ parentOf = <<>> /\ givenName = <<>> /\ shipped = <<>>
  /\ env \in [name : {Undefined, "lognow"}, NO_COLOR : {Undefined},
              FORCE_COLOR : {Undefined}, columns : {80}]
  /\ processDefined = TRUE /\ instance = <<>> /\ typed = <<>>
  /\ fileTransportsByPath = <<>> /\ transports = <<>> /\ lastCreate = <<>>
  /\ currentOptions = <<>> /\ singletonLog = 0 /\ created = <<>>
  /\ givenOptions = <<>> /\ lastAccess = <<>>
  /\ transport = <<>> /\ lastShip = <<>> /\ lastLogger = <<>> /\ ipc = NoIpc

PrefixNext ==
  \/ \E config \in PrefixConfigs : ShipConstructPretty(config)
  \/ \E name \in {"app", "", Undefined} :
       Len(loggers) < MaxChain /\ LogCreateLogger(name)
  \/ \E p \in LoggerIds, name \in {"svc", "", Undefined} :
       Len(loggers) < MaxChain /\ LogGetChildLogger(p, name)
  \/ \E l \in LoggerIds : LogShipPretty(l)

SpecPrefix == PrefixInit /\ [][PrefixNext]_vars

\* the name fragment of the line logged last: what stands before the message
NameFragment ==
  LET line == TargetCalls(lastShip[1].effects)[1].args[1]
  IN  IF Len(line) = 1 THEN "" ELSE line[1].text

\* the names of the ancestors of a logger that have one, from the root to
\* the parent, and the logger's own name if it has one
RECURSIVE NamesToRoot(_)
NamesToRoot(l) ==
  LET context == ContextOf(l)
      above == IF parentOf[l] = 0 THEN <<>> ELSE NamesToRoot(parentOf[l])
  IN  IF "name" \in DOMAIN context /\ context.name # ""
      THEN Append(above, context.name)
      ELSE above

(***************************************************************************)
(* C22: the name fragment of a pretty line is one bracketed entry for each *)
(* name of an ancestor, from the root to the parent, followed by the       *)
(* bracketed name of the logger; it is the bare | when neither the logger  *)
(* nor any of its ancestors has a name.                                    *)
(***************************************************************************)
C22_NameFragment ==
  (shipped # <<>> /\ lastShip # <<>>) =>
    LET names == NamesToRoot(shipped[1].logger)
    IN  NameFragment = IF names = <<>> THEN "|" ELSE Bracketed(names)

\* the fragments the config shows, in the order of the line
ShownFragments ==
  LET config == transport.config
  IN  (IF config.showTime.val THEN <<"time">> ELSE <<>>)
      \o (IF config.showLevel.val THEN <<"level">> ELSE <<>>)
      \o (IF config.showName.val THEN <<"name">> ELSE <<>>)

\* the pretty line as it reached the target: the first argument of the
\* console call or the first line of the chunk, without the marker and
\* without the trace of the wrapping
PrettyLine ==
  LET call == TargetCalls(lastShip[1].effects)[1]
      given == IF call.call # "write" THEN call.args[1]
               ELSE IF MarkerWritten
               THEN SubSeq(FirstLineWritten, 1, Len(FirstLineWritten) - 2)
               ELSE FirstLineWritten
  IN  IF given[1].style = "wrapAnsi" THEN Tail(given) ELSE given

\* the run is the fragment of this kind for the record shipped last
IsFragment(run, kind) ==
  LET params == lastShip[1].params
      colorize == transport.config.colorize.val
      context == IF "context" \in DOMAIN params THEN params.context ELSE EmptyObject
      date == IF "timestamp" \in DOMAIN context THEN context.timestamp ELSE Now
      labels == [trace |-> "TRACE", debug |-> "DEBUG", info |-> "INFO ",
                 warn |-> "WARN ", error |-> "ERROR", fatal |-> "FATAL"]
  IN  CASE kind = "time" ->
             /\ Len(run.text) = 12
             /\ run = formatTime(date, colorize)[1]
        [] kind = "level" ->
             /\ Len(run.text) = 5
             /\ run.text = labels[params.logLevel]
        [] kind = "name" ->
             run = getNamePrefix(Optional(context, "name"),
                                 Optional(context, "parentNames"), colorize)[1]

(***************************************************************************)
(* C23: the pretty line is made of the time (HH:MM:SS.mmm), the level      *)
(* label of 5 characters, the name prefix and the messages joined by       *)
(* spaces, in this order and with one space between two of them; the time, *)
(* the level and the name are there exactly when showTime, showLevel and   *)
(* showName are true, the messages when they have text.                    *)
(***************************************************************************)
C23_LineFragments ==
  ( /\ PrettyShipped({"Console", "ConsoleLike", "StreamLike", "StreamStdout",
                      "StreamStderr"})
    /\ (ShownFragments # <<>> \/ ~NoMessageText) ) =>
    LET shown == ShownFragments
        messages == styleMessages(transport.config, lastShip[1].params.messages).string
        line == PrettyLine
    IN  /\ \A i \in DOMAIN shown :
             /\ IsFragment(line[2 * i - 1], shown[i])
             /\ 2 * i <= Len(line) => line[2 * i] = Run("", " ")[1]
        /\ IF NoMessageText THEN Len(line) = 2 * Len(shown) - 1
           ELSE SubSeq(line, 2 * Len(shown) + 1, Len(line)) = messages

(***************************************************************************)
(* injectionHelper of log.ts, and a log call on the logger that it or      *)
(* createLogger returned: LogLayer hands the record to every transport     *)
(* when the level of the call is enabled.                                  *)
(***************************************************************************)
\* new MockLogLayer(): every method is there and none does anything
MockLogLayer == [mock |-> TRUE]

\* a LogLayer instance of the caller, and an object that has only one of
\* the two methods next to those of a console
LogLayerInstance ==
  [identity |-> "other", typeof |-> "object", isNull |-> FALSE,
   constructorName |-> "LogLayer",
   callable |-> ConsoleMethods \cup {"withContext", "child"}]

HalfLogLayer ==
  [identity |-> "other", typeof |-> "object", isNull |-> FALSE,
   constructorName |-> "Object", callable |-> ConsoleMethods \cup {"withContext"}]

isILogLayer(value) ==
  /\ value.kind = "instance"
  /\ value.val.typeof = "object" /\ ~value.val.isNull
  /\ {"withContext", "child"} \subseteq value.val.callable

\* the options injectionHelper gives createLogger for a basic target
InjectionOptions(logger) ==
  Obj([logJsonToFile |-> Bool(FALSE), logToConsole |-> logger,
       name |-> Undef, verbose |-> Bool(TRUE)])

injectionHelper(byPath, heap, logger) ==
  IF logger.kind = "undefined"
  THEN [thrown |-> "", returned |-> <<MockLogLayer>>, listening |-> FALSE,
        fileTransportsByPath |-> byPath, transports |-> heap]
  ELSE IF isILogLayer(logger)
  THEN [thrown |-> "", returned |-> <<logger.val>>, listening |-> FALSE,
        fileTransportsByPath |-> byPath, transports |-> heap]
  ELSE createLogger(byPath, heap, InjectionOptions(logger))

InjectArgs ==
  { Undef, Logger(LogLayerInstance), Logger(HalfLogLayer) }
  \cup { Logger(i) : i \in CreateTargets }

InjectionHelper(logger) ==
  LoggerMade(injectionHelper(fileTransportsByPath, transports, logger),
             IF logger.kind = "undefined" \/ isILogLayer(logger)
             THEN Undef ELSE InjectionOptions(logger),
             <<logger>>)

LevelRank(level) == CHOOSE i \in DOMAIN LogLevels : LogLevels[i] = level

\* a variant that lets through only what lies above the level set
isLevelEnabled_above(loggerLevel, level) == LevelRank(level) > LevelRank(loggerLevel)

\* setLevel(level) enables the level and every higher one
isLevelEnabled(loggerLevel, level) == LevelRank(level) >= LevelRank(loggerLevel)

\* logger[level]('text') on the logger returned last, a mock or a logger
\* that createLogger made
LoggerLog(level) ==
  /\ lastLogger # <<>> /\ lastLogger[1].returned # <<>>
  /\ LET logger == lastLogger[1].returned[1]
         reached == IF "transports" \in DOMAIN logger
                       /\ isLevelEnabled(logger.level, level)
                    THEN [i \in DOMAIN logger.transports |-> logger.transports[i].kind]
                    ELSE <<>>
     IN  /\ DOMAIN logger # DOMAIN LogLayerInstance
         /\ lastLogger' = <<[lastLogger[1] EXCEPT
                               !.logged = <<[level |-> level, reached |-> reached]>>]>>
  /\ UNCHANGED <<fileTransportsByPath, transports, lastCreate, transport, lastShip,
                 ipc>>
  /\ UNCHANGED <<mgrVars, logVars, targetVars, singletonVars>>

LevelOptions ==
  { Undef, Obj([verbose |-> Bool(TRUE)]), Obj([verbose |-> Bool(FALSE)]),
    Obj([logToConsole |-> Bool(FALSE), verbose |-> Bool(TRUE)]),
    Obj([logToConsole |-> Bool(FALSE), verbose |-> Bool(FALSE)]),
    Obj([logJsonToConsole |-> Bool(TRUE)]) }

InjectInit == CreateEnv(Adapters, EnvValues)

InjectNext ==
  \/ \E logger \in InjectArgs : InjectionHelper(logger)
  \/ \E optionsOrName \in LevelOptions : CreateLogger(optionsOrName)
  \/ \E i \in DOMAIN LogLevels : LoggerLog(LogLevels[i])

SpecInject == InjectInit /\ [][InjectNext]_vars

\* the transports of the logger injectionHelper returned last
InjectedTransports == lastLogger[1].returned[1].transports

(***************************************************************************)
(* C24: injectionHelper returns a logger that accepts every log call and   *)
(* emits nothing when given undefined, the very same instance when given   *)
(* an object with callable withContext and child, and otherwise a newly    *)
(* created logger whose only output is the pretty transport writing to the *)
(* given basic target, at trace level.                                     *)
(***************************************************************************)
C24_InjectionHelper ==
  (lastLogger # <<>> /\ lastLogger[1].injected # <<>>) =>
    LET logger == lastLogger[1].injected[1]
        result == lastLogger[1]
    IN  IF logger.kind = "undefined"
        THEN /\ result.returned = <<MockLogLayer>>
             /\ result.logged # <<>> => result.logged[1].reached = <<>>
        ELSE IF {"withContext", "child"} \subseteq logger.val.callable
        THEN result.returned = <<logger.val>>
        ELSE isILogBasic(logger) =>
               /\ result.thrown = "" /\ result.returned # <<>>
               /\ Len(InjectedTransports) = 1
               /\ InjectedTransports[1].kind = "pretty"
               /\ InjectedTransports[1].typedTarget.target = logger.val
               /\ result.returned[1].level = "trace"

\* the verbose option of the createLogger call that made the last logger:
\* the one given, or the default
GivenVerbose ==
  IF GivenOption("verbose").kind = "boolean" THEN GivenOption("verbose").val
  ELSE FALSE

\* the record of the last log call reached every transport of the logger
ReachedTransports ==
  Len(lastLogger[1].logged[1].reached) = Len(lastLogger[1].returned[1].transports)

(***************************************************************************)
(* C25: a logger created with verbose: true lets records of every level    *)
(* reach its transports; one created with verbose: false lets only records *)
(* of level info and higher reach them; when the DEBUG environment         *)
(* variable is present, records of level trace are let through.            *)
(***************************************************************************)
C25_VerboseLevels ==
  (/\ lastLogger # <<>> /\ lastLogger[1].injected = <<>>
   /\ lastLogger[1].logged # <<>>) =>
    LET level == lastLogger[1].logged[1].level
        reached == lastLogger[1].logged[1].reached
        debugPresent == processDefined /\ env.DEBUG # Undefined
    IN  IF GivenVerbose \/ debugPresent THEN ReachedTransports
        ELSE IF level \in {"info", "warn", "error", "fatal"} THEN ReachedTransports
        ELSE reached = <<>>

\* without DEBUG, a debug record did not reach the console transport of a
\* logger created with verbose: false
C25_Witness ==
  /\ lastLogger # <<>> /\ lastLogger[1].injected = <<>>
  /\ lastLogger[1].options = Obj([verbose |-> Bool(FALSE)])
  /\ ~(processDefined /\ env.DEBUG # Undefined)
  /\ lastLogger[1].logged # <<>>
  /\ lastLogger[1].logged[1].level = "debug"
  /\ lastLogger[1].logged[1].reached = <<>>
  /\ Len(lastLogger[1].returned[1].transports) >= 1

\* the options of a call are ones the constructor of JsonFileTransport
\* refuses: a field name that is not the default one, or a level map
Rejected(argument) ==
  /\ argument.kind = "object"
  /\ LET options == argument.val
     IN  \/ /\ "levelMap" \in DOMAIN options
            /\ options.levelMap.val # EmptyObject
         \/ /\ "fieldNames" \in DOMAIN options
            /\ \E key \in DOMAIN options.fieldNames.val :
                 LET field == options.fieldNames.val[key]
                 IN  \/ key = "timestamp" /\ field # "timestamp"
                     \/ key = "level" /\ field # "level"
                     \/ key = "message" /\ field \notin {"message", "messages"}

NameOf(l) ==
  IF "name" \in DOMAIN ContextOf(l) THEN <<ContextOf(l).name>> ELSE <<>>

\* the children that getChildLogger made without a name
UnnamedChildren ==
  { l \in LoggerIds : parentOf[l] # 0 /\ givenName[l] \in {Undefined, ""} }

LastParentName(l) ==
  ContextOf(l).parentNames[Len(ContextOf(l).parentNames)]

(***************************************************************************)
(* C27: a child created by getChildLogger without a name, or with the      *)
(* empty string, keeps the name it inherits from its parent's context, so  *)
(* its context.name equals the last element of its own parentNames; only a *)
(* named child has a name different from its parent's.                     *)
(***************************************************************************)
C27_UnnamedChildName ==
  \A l \in LoggerIds :
    parentOf[l] # 0 =>
      /\ l \in UnnamedChildren =>
           /\ NameOf(l) = NameOf(parentOf[l])
           /\ NameOf(l) = <<LastParentName(l)>>
      /\ NameOf(l) # NameOf(parentOf[l]) => l \notin UnnamedChildren

\* C27, a parent without a name being null in parentNames
C27_UnnamedChildInherits ==
  \A l \in LoggerIds :
    parentOf[l] # 0 =>
      /\ l \in UnnamedChildren =>
           /\ NameOf(l) = NameOf(parentOf[l])
           /\ IF NameOf(l) # <<>> THEN NameOf(l) = <<LastParentName(l)>>
              ELSE LastParentName(l) = Null
      /\ NameOf(l) # NameOf(parentOf[l]) => l \notin UnnamedChildren

\* a child given the empty string has the name of its parent, itself a
\* child
C27_Witness ==
  \E l \in UnnamedChildren :
    /\ givenName[l] = "" /\ NameOf(l) = <<"app">> /\ LastParentName(l) = "app"
    /\ parentOf[parentOf[l]] # 0

(***************************************************************************)
(* C28: createFileTransport called with a filename key that is in the      *)
(* cache returns the cached instance and constructs nothing, so the other  *)
(* options of the later call, and a differing name when options.filename   *)
(* is given, have no effect; the cache only grows: no entry is ever        *)
(* removed or replaced.                                                    *)
(***************************************************************************)
C28_CachedInstanceReturned ==
  [][LET call == lastCreate'
     IN  /\ call.filename \in DOMAIN fileTransportsByPath =>
              /\ call.thrown = "" /\ ~call.constructed
              /\ call.returned = fileTransportsByPath[call.filename]
              /\ transports' = transports
              /\ fileTransportsByPath' = fileTransportsByPath
         /\ \A filename \in DOMAIN fileTransportsByPath :
              /\ filename \in DOMAIN fileTransportsByPath'
              /\ fileTransportsByPath'[filename] = fileTransportsByPath[filename]
              /\ transports'[fileTransportsByPath[filename]]
                   = transports[fileTransportsByPath[filename]]]_vars

\* a call with another name, the same options.filename and field names of
\* its own got the transport of the first call
C28_Witness ==
  /\ lastCreate # <<>>
  /\ ~lastCreate.constructed /\ lastCreate.thrown = ""
  /\ lastCreate.argument.kind = "object"
  /\ "fieldNames" \in DOMAIN lastCreate.argument.val
  /\ lastCreate.returned = fileTransportsByPath[lastCreate.filename]
  /\ "fieldNames" \notin DOMAIN transports[lastCreate.returned]
  /\ Len(transports) >= 2

(***************************************************************************)
(* JsonFileTransport.shipToLogger.  The transport object has the fields of *)
(* the rotation transport that the method reads: batchEnabled, batchSize,  *)
(* batchQueue, delimiter and stream (the chunks written to it), and the    *)
(* timer of the delayed flush.  shippedLines keeps every line shipToLogger *)
(* built, in shipping order.                                               *)
(***************************************************************************)
MaxBatchSize == 2
MaxBatchLines == 3

\* this.flush(): the queue goes to the stream, in order, and the timer of
\* the delayed flush is cleared
flush(t) ==
  [t EXCEPT !.stream = @ \o t.batchQueue, !.batchQueue = <<>>, !.timer = FALSE]

\* this.scheduleBatchFlush(): a flush will be made later
scheduleBatchFlush(t) == [t EXCEPT !.timer = TRUE]

\* the line of a record: its JSON string and the delimiter after it
LogString(t, params) ==
  [json |-> paramsToJsonString(params), delimiter |-> t.delimiter]

\* a variant that flushes only when the queue is longer than batchSize
FileShipToLogger_flushAbove(t, params) ==
  LET logString == LogString(t, params)
      queued == [t EXCEPT !.batchQueue = Append(@, logString)]
      full == Len(queued.batchQueue) > t.batchSize
  IN  IF t.batchEnabled
      THEN [transport |-> IF full THEN flush(queued) ELSE scheduleBatchFlush(queued),
            effects |-> <<[on |-> "batchQueue", call |-> "push", args |-> <<logString>>],
                          [on |-> "this",
                           call |-> IF full THEN "flush" ELSE "scheduleBatchFlush",
                           args |-> <<>>]>>,
            returned |-> params.messages]
      ELSE [transport |-> [t EXCEPT !.stream = Append(@, logString)],
            effects |-> <<[on |-> "stream", call |-> "write", args |-> <<logString>>]>>,
            returned |-> params.messages]

\* shipToLogger(params) of JsonFileTransport
FileShipToLogger(t, params) ==
  LET logString == LogString(t, params)
      queued == [t EXCEPT !.batchQueue = Append(@, logString)]
      full == Len(queued.batchQueue) >= t.batchSize
  IN  IF t.batchEnabled
      THEN [transport |-> IF full THEN flush(queued) ELSE scheduleBatchFlush(queued),
            effects |-> <<[on |-> "batchQueue", call |-> "push", args |-> <<logString>>],
                          [on |-> "this",
                           call |-> IF full THEN "flush" ELSE "scheduleBatchFlush",
                           args |-> <<>>]>>,
            returned |-> params.messages]
      ELSE [transport |-> [t EXCEPT !.stream = Append(@, logString)],
            effects |-> <<[on |-> "stream", call |-> "write", args |-> <<logString>>]>>,
            returned |-> params.messages]

\* the batch option of the config: absent, or { size }
BatchOptions == { <<>> } \cup { <<[size |-> n]>> : n \in 1..MaxBatchSize }

BatchParams ==
  { [logLevel |-> "info", messages |-> <<Str(text)>>] : text \in {"one", "two"} }
  \cup { [logLevel |-> "error", messages |-> <<>>,
          error |-> [name |-> "Error", message |-> "boom"]] }

\* new JsonFileTransport({ filename, batch })
ShipConstructFile(batch) ==
  /\ transport = <<>>
  /\ transport' = [kind |-> "file", thrown |-> "",
                   batchEnabled |-> batch # <<>>,
                   batchSize |-> IF batch # <<>> THEN batch[1].size ELSE Undefined,
                   batchQueue |-> <<>>, delimiter |-> "\n", stream |-> <<>>,
                   timer |-> FALSE, shippedLines |-> <<>>]
  /\ UNCHANGED <<lastShip, lastLogger, ipc>>
  /\ UNCHANGED <<mgrVars, logVars, targetVars, fileVars, singletonVars>>

ShipFile(params) ==
  /\ transport # <<>> /\ transport.kind = "file"
  /\ Len(transport.shippedLines) < MaxBatchLines
  /\ LET done == FileShipToLogger(transport, params)
     IN  /\ transport' = [done.transport EXCEPT
                            !.shippedLines = Append(@, LogString(transport, params))]
         /\ lastShip' = <<[params |-> params, effects |-> done.effects,
                           returned |-> done.returned, thrown |-> ""]>>
  /\ UNCHANGED <<lastLogger, ipc>>
  /\ UNCHANGED <<mgrVars, logVars, targetVars, fileVars, singletonVars>>

\* the timer of the delayed flush fires
BatchTimerFlush ==
  /\ transport # <<>> /\ transport.kind = "file" /\ transport.timer
  /\ transport' = flush(transport)
  /\ UNCHANGED <<lastShip, lastLogger, ipc>>
  /\ UNCHANGED <<mgrVars, logVars, targetVars, fileVars, singletonVars>>

BatchNext ==
  \/ \E batch \in BatchOptions : ShipConstructFile(batch)
  \/ \E params \in BatchParams : ShipFile(params)
  \/ BatchTimerFlush

SpecBatch == ShipInit /\ [][BatchNext]_vars

\* a step in which shipToLogger was called
ShipFileStep ==
  /\ transport # <<>> /\ transport.kind = "file"
  /\ Len(transport'.shippedLines) = Len(transport.shippedLines) + 1

(***************************************************************************)
(* C29: JsonFileTransport.shipToLogger handles the JSON line of each       *)
(* record exactly once and in shipping order.  With batching disabled the  *)
(* line is written directly to the stream; with batching enabled it is     *)
(* appended to the tail of the batch queue, and then flush is invoked at   *)
(* once if the queue has reached batchSize, a delayed flush is scheduled   *)
(* otherwise.  No line is both queued and written directly, and the call   *)
(* returns params.messages.                                                *)
(***************************************************************************)
C29_LineHandledOnce ==
  [][ShipFileStep =>
       LET line == [json |-> paramsToJsonString(lastShip'[1].params),
                    delimiter |-> "\n"]
           effects == lastShip'[1].effects
       IN  /\ lastShip'[1].returned = lastShip'[1].params.messages
           /\ transport'.shippedLines = Append(transport.shippedLines, line)
           /\ transport'.stream \o transport'.batchQueue
                = Append(transport.stream \o transport.batchQueue, line)
           /\ IF ~transport.batchEnabled
              THEN /\ effects = <<[on |-> "stream", call |-> "write",
                                   args |-> <<line>>]>>
                   /\ transport'.stream = Append(transport.stream, line)
                   /\ transport'.batchQueue = <<>>
              ELSE /\ Len(effects) = 2
                   /\ effects[1] = [on |-> "batchQueue", call |-> "push",
                                    args |-> <<line>>]
                   /\ effects[2].call =
                        IF Len(transport.batchQueue) + 1 >= transport.batchSize
                        THEN "flush" ELSE "scheduleBatchFlush"
                   /\ effects[2].call = "flush" =>
                        /\ transport'.batchQueue = <<>>
                        /\ transport'.stream
                             = transport.stream \o Append(transport.batchQueue, line)
                   /\ effects[2].call = "scheduleBatchFlush" =>
                        /\ transport'.batchQueue = Append(transport.batchQueue, line)
                        /\ transport'.stream = transport.stream
                        /\ transport'.timer]_vars

\* with a batch size of two, the third line waits in the queue for the
\* delayed flush after the first two were flushed together
C29_Witness ==
  /\ transport # <<>> /\ transport.kind = "file"
  /\ transport.batchEnabled /\ transport.batchSize = 2
  /\ Len(transport.stream) = 2 /\ Len(transport.batchQueue) = 1
  /\ transport.timer
  /\ lastShip # <<>> /\ lastShip[1].effects[2].call = "scheduleBatchFlush"
  /\ transport.stream \o transport.batchQueue = transport.shippedLines

(***************************************************************************)
(* Electron: the transport of the renderer adapter, the preload script and *)
(* the listeners that createLogger registers in the main process.  The     *)
(* state is that of the main process and of the channel; the renderer is   *)
(* the sender of the records its loggers ship.                             *)
(***************************************************************************)
MaxMessages == 2

\* the keys of the params of shipToLogger, in the order they are written
ParamKeys == <<"logLevel", "messages", "metadata", "error", "context">>

\* NJSON.stringify(params): the text, a list of the keys that are there
\* with their values
NJSONStringify(params) ==
  LET present == SelectSeq(ParamKeys, LAMBDA key : key \in DOMAIN params)
  IN  [i \in DOMAIN present |-> <<present[i], params[present[i]]>>]

\* NJSON.parse(message): the object the text describes
NJSONParse(message) ==
  [key \in { message[i][1] : i \in DOMAIN message } |->
     message[CHOOSE i \in DOMAIN message : message[i][1] = key][2]]

\* the argument of logger.raw: five keys, undefined where params has none
RawEntry(params) ==
  [context |-> Optional(params, "context"),
   error |-> Optional(params, "error"),
   logLevel |-> Optional(params, "logLevel"),
   messages |-> Optional(params, "messages"),
   metadata |-> Optional(params, "metadata")]

\* shipToLogger(params) of the transport createElectronTransport returns:
\* window.logToMain(NJSON.stringify(params)), which is ipcRenderer.send on
\* the channel once the preload script has exposed it
ElectronShipToLogger(electron, params) ==
  IF ~electron.logToMain
  THEN [electron EXCEPT
          !.lastSend = <<[params |-> params, returned |-> <<>>,
                          thrown |-> "TypeError"]>>]
  ELSE [electron EXCEPT
          !.channel = Append(@, NJSONStringify(params)),
          !.sent = Append(@, params),
          !.lastSend = <<[params |-> params, returned |-> params.messages,
                          thrown |-> ""]>>]

\* the listeners of the channel are called in the order they were
\* registered, each calling raw on its logger
ElectronListeners(electron, message) ==
  LET params == NJSONParse(message)
  IN  [i \in DOMAIN electron.listeners |->
         [listener |-> i, call |-> "raw", entry |-> RawEntry(params)]]

ElectronParams ==
  { [logLevel |-> "info", messages |-> <<Str("hello")>>],
    [logLevel |-> "debug", messages |-> <<Str("hello"), Obj([a |-> "1"])>>,
     context |-> [name |-> "Renderer", k |-> "v"]],
    [logLevel |-> "error", messages |-> <<>>,
     context |-> [name |-> "Renderer"], metadata |-> [m |-> "1"],
     error |-> [name |-> "Error", message |-> "boom"]] }

ElectronOptions ==
  { Undef, Obj([verbose |-> Bool(TRUE)]), Obj([logToConsole |-> Bool(FALSE)]),
    Obj([logJsonToFile |-> Obj([levelMap |-> Obj([info |-> "INFO"])])]) }

\* preload(): contextBridge.exposeInMainWorld('logToMain', ...)
Preload ==
  /\ ~ipc.logToMain
  /\ ipc' = [ipc EXCEPT !.logToMain = TRUE]
  /\ UNCHANGED <<transport, lastShip, lastLogger>>
  /\ UNCHANGED <<mgrVars, logVars, targetVars, fileVars, singletonVars>>

\* a logger of the renderer ships a record
RendererShip(params) ==
  /\ Len(ipc.channel) < MaxMessages
  /\ ipc' = ElectronShipToLogger(ipc, params)
  /\ UNCHANGED <<transport, lastShip, lastLogger>>
  /\ UNCHANGED <<mgrVars, logVars, targetVars, fileVars, singletonVars>>

\* the main process receives the oldest message on the channel
MainReceive ==
  /\ ipc.channel # <<>>
  /\ ipc' = [ipc EXCEPT !.channel = Tail(@), !.sent = Tail(@),
                        !.relogged = ElectronListeners(ipc, Head(ipc.channel))]
  /\ UNCHANGED <<transport, lastShip, lastLogger>>
  /\ UNCHANGED <<mgrVars, logVars, targetVars, fileVars, singletonVars>>

ElectronInit == CreateEnv({"electron-main"}, {Undefined})

ElectronNext ==
  \/ \E optionsOrName \in ElectronOptions : CreateLogger(optionsOrName)
  \/ Preload
  \/ \E params \in ElectronParams : RendererShip(params)
  \/ MainReceive

SpecElectron == ElectronInit /\ [][ElectronNext]_vars

\* the five fields of a record, undefined where it has none
FiveFields(params) ==
  [key \in {"logLevel", "messages", "context", "metadata", "error"} |->
     IF key \in DOMAIN params THEN <<params[key]>> ELSE <<>>]

(***************************************************************************)
(* C30: in the Electron main process every createLogger call that returns  *)
(* registers one more listener on the channel and no listener is ever      *)
(* removed; a record shipped by a renderer logger is sent exactly once     *)
(* over the channel, and when it arrives it is logged again in main once   *)
(* by each logger created there so far, each time with the logLevel,       *)
(* messages, context, metadata and error of the renderer's record.         *)
(***************************************************************************)
C30_RelayedToEveryLogger ==
  [][/\ SubSeq(ipc'.listeners, 1, Len(ipc.listeners)) = ipc.listeners
     /\ Len(ipc'.listeners) >= Len(ipc.listeners)
     /\ ((\E optionsOrName \in ElectronOptions : CreateLogger(optionsOrName))
         /\ lastLogger'[1].returned # <<>>) =>
          ipc'.listeners = Append(ipc.listeners, lastLogger'[1].returned[1])
     /\ ((\E params \in ElectronParams : RendererShip(params)) /\ ipc.logToMain) =>
          /\ Len(ipc'.channel) = Len(ipc.channel) + 1
          /\ SubSeq(ipc'.channel, 1, Len(ipc.channel)) = ipc.channel
          /\ ipc'.lastSend[1].returned = ipc'.lastSend[1].params.messages
     /\ MainReceive =>
          /\ Len(ipc'.relogged) = Len(ipc.listeners)
          /\ \A i \in DOMAIN ipc'.relogged :
               /\ ipc'.relogged[i].listener = i
               /\ ipc'.relogged[i].call = "raw"
               /\ \A key \in DOMAIN ipc'.relogged[i].entry :
                    ipc'.relogged[i].entry[key] = FiveFields(Head(ipc.sent))[key]]_vars

\* a record with an error and metadata was logged again by both loggers of
\* the main process
C30_Witness ==
  /\ Len(ipc.listeners) = 2 /\ Len(ipc.relogged) = 2
  /\ ipc.relogged[2].entry.error # <<>>
  /\ ipc.relogged[2].entry.metadata = <<[m |-> "1"]>>
  /\ ipc.relogged[1].entry = ipc.relogged[2].entry

====
